---------------------------- MODULE Spec2Model ----------------------------
(***************************************************************************)
(* Persistence layer of the task manager: the entity codec of models.py   *)
(* (Task, TimeEntry, TaskTemplate: to_dict / from_dict) and the two        *)
(* storage backends of storage.py (JSONStorage, SQLiteStorage).            *)
(*                                                                         *)
(* Python values are tagged records ([py |-> <type name>, v |-> <value>]), *)
(* JSON text is its parse tree ([j |-> <kind>, ...]) and SQLite cells are  *)
(* tagged with their storage class ([sql |-> <class>, ...]): the codecs    *)
(* dispatch on the run-time type exactly as json and sqlite3 do.           *)
(***************************************************************************)
EXTENDS Integers, Sequences, FiniteSets, TLC

VARIABLES
    backend,        \* which Storage class the caller constructed
    tasksFile,      \* JSONStorage.filepath: the file on disk
    templatesFile,  \* JSONStorage.templates_filepath: the file on disk
    db,             \* SQLiteStorage.conn: the committed database
    last,           \* the last call on the storage object (or on the
                    \* manager) and its outcome
    manager,        \* TaskManager: self.tasks and self.templates
    clock,          \* what datetime.now() returns, in minutes
    uuids,          \* how many times uuid4() has been called
    calls,          \* how many more TaskManager calls this session makes
    failures,       \* how many more saves the file system or database fails
    shared,         \* the list attributes of tasks that are the very list
                    \* object of a template's attribute
    fs,             \* the files of the working directory, by path
    stores          \* the storage objects constructed so far, by the path
                    \* each was given

vars ==
    <<backend, tasksFile, templatesFile, db, last, manager, clock, uuids,
      calls, failures, shared, fs, stores>>

manager_vars == <<manager, clock, uuids, calls, failures, shared>>

(***************************************************************************)
(* Bounds of the model.                                                    *)
(***************************************************************************)
\* an injected I/O error hits one of the first MaxFault INSERT statements
MaxFault == 2
\* the TaskManager calls of one session, all operations enabled
MaxCalls == 3
\* the TaskManager calls of one session that exercises one feature
MaxFeatureCalls == 4
\* the saves that fail during one session
MaxFailures == 1
\* the half hours that pass during one session
MaxTicks == 2
\* the calls of uuid4() during one session
MaxUuids == 3

(***************************************************************************)
(* Results of a Python call: a value, or an exception.                     *)
(***************************************************************************)
Ok(v) == [ok |-> TRUE, val |-> v]
Raise(e) == [ok |-> FALSE, exc |-> e]

EmptyMap == [k \in {} |-> k]

Range(s) == {s[i] : i \in DOMAIN s}

\* every order in which a dict with the keys S can be iterated
Orders(S) == {o \in [1..Cardinality(S) -> S] : Range(o) = S}

(***************************************************************************)
(* Python values.                                                          *)
(***************************************************************************)
PyNone == [py |-> "NoneType"]
PyStr(s) == [py |-> "str", v |-> s]
\* the str that datetime.isoformat() returns for the instant n (minutes
\* since an epoch): a text known by the instant it denotes
PyIsoStr(n) == [py |-> "str", iso |-> n]
PyInt(n) == [py |-> "int", v |-> n]
PyFloat(n) == [py |-> "float", v |-> n]
PyBool(b) == [py |-> "bool", v |-> b]
PyList(s) == [py |-> "list", v |-> s]
PyDict(d) == [py |-> "dict", v |-> d]
\* a member of the Priority enum (Priority.HIGH, not its .value)
PyEnum(n) == [py |-> "Priority", v |-> n]

\* bool(x)
bool(x) ==
    CASE x.py = "NoneType" -> PyBool(FALSE)
      [] x.py = "bool" -> x
      [] x.py \in {"int", "float"} -> PyBool(x.v # 0)
      [] x.py = "str" -> PyBool("iso" \in DOMAIN x \/ x.v # "")
      [] x.py = "list" -> PyBool(x.v # <<>>)
      [] x.py = "dict" -> PyBool(DOMAIN x.v # {})
      [] OTHER -> PyBool(TRUE)

\* int(x) of a bool or a number; anything else raises
int(x) ==
    CASE x.py = "bool" -> Ok(PyInt(IF x.v THEN 1 ELSE 0))
      [] x.py \in {"int", "float"} -> Ok(PyInt(x.v))
      [] OTHER -> Raise("TypeError")

(***************************************************************************)
(* models.py: the dataclasses.                                             *)
(***************************************************************************)
TaskFieldOrder ==
    << "id", "title", "description", "priority", "status", "created_at",
       "updated_at", "due_date", "completed_at", "categories", "tags",
       "is_recurring", "recurrence_type", "recurrence_interval",
       "last_recurrence", "depends_on", "blocked_by", "time_entries",
       "estimated_minutes", "is_template", "template_name",
       "reminder_before_minutes", "last_reminded" >>

TaskFields == Range(TaskFieldOrder)

\* the declared default of a Task field; gen holds what the default
\* factories (str(uuid4()), datetime.now().isoformat()) produce for this
\* instance
TaskDefault(f, gen) ==
    CASE f = "id" -> PyStr(gen.uuid)
      [] f \in {"title", "description"} -> PyStr("")
      [] f = "priority" -> PyStr("medium")
      [] f = "status" -> PyStr("pending")
      [] f \in {"created_at", "updated_at"} -> gen.now
      [] f \in {"categories", "tags", "depends_on", "blocked_by",
                "time_entries"} -> PyList(<<>>)
      [] f \in {"is_recurring", "is_template"} -> PyBool(FALSE)
      [] f = "recurrence_interval" -> PyInt(1)
      [] OTHER -> PyNone

TimeEntryFieldOrder ==
    << "id", "start_time", "end_time", "duration_minutes", "notes" >>

TimeEntryFields == Range(TimeEntryFieldOrder)

TemplateFieldOrder ==
    << "id", "name", "title", "description", "priority", "categories",
       "tags", "estimated_minutes", "reminder_before_minutes" >>

TemplateFields == Range(TemplateFieldOrder)

TemplateDefault(f, gen) ==
    CASE f = "id" -> PyStr(gen.uuid)
      [] f \in {"name", "title", "description"} -> PyStr("")
      [] f = "priority" -> PyStr("medium")
      [] f \in {"categories", "tags"} -> PyList(<<>>)
      [] OTHER -> PyNone

\* asdict(self): one key per declared field
Task_to_dict(t) == PyDict([f \in TaskFields |-> t[f]])

\* mutant: a decoder that demands every field (cls(**data) of a class whose
\* fields have no defaults)
Task_from_dict_Strict(data, gen) ==
    IF DOMAIN data = TaskFields
    THEN Ok([f \in TaskFields |-> data[f]])
    ELSE Raise("TypeError")

\* cls(**data): a keyword that is no field raises TypeError, a field that
\* is not given takes its default; data is the mapping of a dict
Task_from_dict(data, gen) ==
    IF DOMAIN data \subseteq TaskFields
    THEN Ok([f \in TaskFields |->
                IF f \in DOMAIN data THEN data[f] ELSE TaskDefault(f, gen)])
    ELSE Raise("TypeError")

TaskTemplate_to_dict(t) == PyDict([f \in TemplateFields |-> t[f]])

TaskTemplate_from_dict(data, gen) ==
    IF DOMAIN data \subseteq TemplateFields
    THEN Ok([f \in TemplateFields |->
                IF f \in DOMAIN data THEN data[f]
                ELSE TemplateDefault(f, gen)])
    ELSE Raise("TypeError")

\* the to_dict / from_dict of the class a collection holds
to_dict(kind, x) ==
    IF kind = "tasks" THEN Task_to_dict(x) ELSE TaskTemplate_to_dict(x)

from_dict(kind, data, gen) ==
    IF kind = "tasks" THEN Task_from_dict(data, gen)
    ELSE TaskTemplate_from_dict(data, gen)

\* TimeEntry(...).to_dict(): the dict the business layer appends to
\* Task.time_entries
TimeEntry_to_dict(id, start, end, minutes, notes) ==
    PyDict([id |-> PyStr(id), start_time |-> PyStr(start), end_time |-> end,
            duration_minutes |-> PyFloat(minutes), notes |-> PyStr(notes)])

(***************************************************************************)
(* json.dumps / json.loads.  A file's text is kept as its parse tree.      *)
(***************************************************************************)
JNull == [j |-> "null"]

\* the value x with its type tag old replaced by the tag new |-> name: the
\* text of a string is the same text in Python, in JSON and in SQLite
Retag(x, old, new, name) ==
    [f \in (DOMAIN x \ {old}) \cup {new} |-> IF f = new THEN name ELSE x[f]]

RECURSIVE JSONEncodable(_)
JSONEncodable(x) ==
    CASE x.py \in {"NoneType", "str", "int", "float", "bool"} -> TRUE
      [] x.py = "list" -> \A i \in DOMAIN x.v : JSONEncodable(x.v[i])
      [] x.py = "dict" -> \A k \in DOMAIN x.v : JSONEncodable(x.v[k])
      [] OTHER -> FALSE

RECURSIVE json_encode(_)
json_encode(x) ==
    CASE x.py = "NoneType" -> JNull
      [] x.py = "bool" -> [j |-> IF x.v THEN "true" ELSE "false"]
      [] x.py = "str" -> Retag(x, "py", "j", "string")
      [] x.py = "int" -> [j |-> "number", v |-> x.v, frac |-> FALSE]
      [] x.py = "float" -> [j |-> "number", v |-> x.v, frac |-> TRUE]
      [] x.py = "list" ->
            [j |-> "array", v |-> [i \in DOMAIN x.v |-> json_encode(x.v[i])]]
      [] x.py = "dict" ->
            [j |-> "object", v |-> [k \in DOMAIN x.v |-> json_encode(x.v[k])]]

\* json.dumps(obj, indent=2): TypeError on a value json cannot encode
json_dumps(x) ==
    IF JSONEncodable(x) THEN Ok(json_encode(x)) ELSE Raise("TypeError")

RECURSIVE json_loads(_)
json_loads(t) ==
    CASE t.j = "null" -> PyNone
      [] t.j = "true" -> PyBool(TRUE)
      [] t.j = "false" -> PyBool(FALSE)
      [] t.j = "string" -> Retag(t, "j", "py", "str")
      [] t.j = "number" -> IF t.frac THEN PyFloat(t.v) ELSE PyInt(t.v)
      [] t.j = "array" -> PyList([i \in DOMAIN t.v |-> json_loads(t.v[i])])
      [] t.j = "object" -> PyDict([k \in DOMAIN t.v |-> json_loads(t.v[k])])

(***************************************************************************)
(* A file: absent, holding a complete JSON text, or holding a text cut     *)
(* short (what a write that fails after the truncating open leaves).       *)
(***************************************************************************)
FileAbsent == [st |-> "absent"]
FileText(doc) == [st |-> "text", doc |-> doc]
FilePartial == [st |-> "partial"]

\* json.loads(path.read_text()); ioerr: the read itself fails
ReadJSON(file, ioerr) ==
    CASE ioerr -> Raise("OSError")
      [] file.st = "absent" -> Raise("FileNotFoundError")
      [] file.st = "partial" -> Raise("JSONDecodeError")
      [] OTHER -> Ok(json_loads(file.doc))

\* Path.write_text(text): open(mode='w') truncates the file, then the text
\* is written and the file closed.  w is what the file system lets happen:
\* "ok", "denied" (the open raises: the file is as before) or "short" (the
\* write or the close raises after the truncation, e.g. the disk is full)
write_text(file, doc, w) ==
    CASE w = "ok" -> [ok |-> TRUE, file |-> FileText(doc)]
      [] w = "denied" -> [ok |-> FALSE, file |-> file]
      [] w = "short" -> [ok |-> FALSE, file |-> FilePartial]

WriteOutcomes == {"ok", "denied", "short"}

(***************************************************************************)
(* storage.py: JSONStorage.                                                *)
(***************************************************************************)
\* the loop of load_tasks / load_templates over data.get(key, {}).items();
\* any exception leaves the except branch returning {}
JSONLoadCollection(file, key, gen, ioerr) ==
    LET text == ReadJSON(file, ioerr) IN
    IF ~text.ok THEN Raise(text.exc)
    ELSE IF text.val.py # "dict" THEN Raise("AttributeError")
    ELSE LET records == IF key \in DOMAIN text.val.v
                        THEN text.val.v[key] ELSE PyDict(EmptyMap)
         IN  IF records.py # "dict" THEN Raise("AttributeError")
             ELSE IF \E k \in DOMAIN records.v :
                        \/ records.v[k].py # "dict"
                        \/ ~from_dict(key, records.v[k].v, gen[k]).ok
                  THEN Raise("TypeError")
                  ELSE Ok([k \in DOMAIN records.v |->
                              from_dict(key, records.v[k].v, gen[k]).val])

\* what the except branch of a load returns
JSONLoadRecover(r) == IF r.ok THEN r.val ELSE EmptyMap

JSONStorage_load_tasks(file, gen, ioerr) ==
    LET r == JSONLoadCollection(file, "tasks", gen, ioerr)
    IN  [raised |-> FALSE, value |-> JSONLoadRecover(r), logged |-> ~r.ok]

JSONStorage_load_templates(file, gen, ioerr) ==
    LET r == JSONLoadCollection(file, "templates", gen, ioerr)
    IN  [raised |-> FALSE, value |-> JSONLoadRecover(r), logged |-> ~r.ok]

\* mutant: the records the file holds under key are kept beside the new
\* ones
JSONSaveCollection_Merging(file, key, items, w) ==
    LET data == PyDict([c \in {key} |->
                          PyDict([k \in DOMAIN items |->
                                     to_dict(key, items[k])])])
        text == json_dumps(data)
        old == IF file.st = "text" /\ key \in DOMAIN file.doc.v
               THEN file.doc.v[key].v ELSE EmptyMap
    IN  IF ~text.ok THEN [ret |-> FALSE, file |-> file]
        ELSE LET merged == [text.val EXCEPT !.v[key].v = @ @@ old]
                 wr == write_text(file, merged, w)
             IN  [ret |-> wr.ok, file |-> wr.file]

\* the try block of save_tasks / save_templates
JSONSaveCollection(file, key, items, w) ==
    LET data == PyDict([c \in {key} |->
                          PyDict([k \in DOMAIN items |->
                                     to_dict(key, items[k])])])
        text == json_dumps(data)
    IN  IF ~text.ok THEN [ret |-> FALSE, file |-> file]
        ELSE LET wr == write_text(file, text.val, w)
             IN  [ret |-> wr.ok, file |-> wr.file]

\* mutant: the collection is written under the key "task", which
\* load_tasks does not read
JSONStorage_save_tasks_WrongKey(file, tasks, w) ==
    LET data == PyDict([c \in {"task"} |->
                          PyDict([k \in DOMAIN tasks |->
                                     Task_to_dict(tasks[k])])])
        text == json_dumps(data)
    IN  IF ~text.ok THEN [ret |-> FALSE, file |-> file]
        ELSE LET wr == write_text(file, text.val, w)
             IN  [ret |-> wr.ok, file |-> wr.file]

JSONStorage_save_tasks(file, tasks, w) ==
    JSONSaveCollection(file, "tasks", tasks, w)

JSONStorage_save_templates(file, templates, w) ==
    JSONSaveCollection(file, "templates", templates, w)

\* mutant: the file is written whether it exists or not
JSONStorage_ensure_file_Always(file, key) ==
    FileText(json_encode(PyDict([c \in {key} |-> PyDict(EmptyMap)])))

\* _ensure_files: an absent file is created holding an empty collection
JSONStorage_ensure_file(file, key) ==
    IF file.st = "absent"
    THEN FileText(json_encode(PyDict([c \in {key} |-> PyDict(EmptyMap)])))
    ELSE file

\* __init__: self.templates_filepath = Path("templates.json"), whatever
\* filepath is
templates_filepath_PerStore(filepath) == filepath

templates_filepath(filepath) == "templates.json"

\* the task file paths storage objects are constructed with, the last one
\* naming the template file
TaskPaths == {"tasks.json", "other.json", "templates.json"}

Paths == TaskPaths \cup {templates_filepath(p) : p \in TaskPaths}

\* an empty working directory
NoFiles == [p \in Paths |-> FileAbsent]

\* _ensure_files: the task file first, then the template file
JSONStorage_ensure_files(files, filepath) ==
    LET made == [files EXCEPT
                    ![filepath] = JSONStorage_ensure_file(@, "tasks")]
    IN  [made EXCEPT ![templates_filepath(filepath)] =
                         JSONStorage_ensure_file(@, "templates")]

(***************************************************************************)
(* SQLite: cells, the schema of _init_db, INSERT and SELECT.               *)
(***************************************************************************)
SqlNull == [sql |-> "NULL"]
SqlText(s) == [sql |-> "TEXT", v |-> s]
SqlInt(n) == [sql |-> "INTEGER", v |-> n]
SqlReal(n) == [sql |-> "REAL", v |-> n]

TaskTables ==
    {"tasks", "task_categories", "task_tags", "task_dependencies",
     "time_entries"}

TemplateTables == {"templates", "template_categories", "template_tags"}

Tables == TaskTables \cup TemplateTables

\* CREATE TABLE IF NOT EXISTS ...: the columns, in order
Columns(table) ==
    CASE table = "tasks" ->
            << "id", "title", "description", "priority", "status",
               "created_at", "updated_at", "due_date", "completed_at",
               "is_recurring", "recurrence_type", "recurrence_interval",
               "last_recurrence", "estimated_minutes", "is_template",
               "template_name", "reminder_before_minutes", "last_reminded" >>
      [] table = "task_categories" -> << "task_id", "category" >>
      [] table = "task_tags" -> << "task_id", "tag" >>
      [] table = "task_dependencies" -> << "task_id", "depends_on_id" >>
      [] table = "time_entries" ->
            << "id", "task_id", "start_time", "end_time", "duration_minutes",
               "notes" >>
      [] table = "templates" ->
            << "id", "name", "title", "description", "priority",
               "estimated_minutes", "reminder_before_minutes" >>
      [] table = "template_categories" -> << "template_id", "category" >>
      [] table = "template_tags" -> << "template_id", "tag" >>

\* the declared type of a column
ColumnType(table, col) ==
    CASE col \in {"is_recurring", "recurrence_interval", "estimated_minutes",
                  "is_template", "reminder_before_minutes"} -> "INTEGER"
      [] col = "duration_minutes" -> "REAL"
      [] OTHER -> "TEXT"

\* mutant: templates.name declared without UNIQUE
UniqueColumns_IdOnly(table) ==
    CASE table \in {"tasks", "time_entries", "templates"} -> {"id"}
      [] OTHER -> {}

\* PRIMARY KEY and UNIQUE columns (a NULL never collides)
UniqueColumns(table) ==
    CASE table \in {"tasks", "time_entries"} -> {"id"}
      [] table = "templates" -> {"id", "name"}
      [] OTHER -> {}

NotNullColumns(table) ==
    CASE table = "tasks" -> {"title"}
      [] table = "templates" -> {"name"}
      [] OTHER -> {}

\* the connection of _init_db never issues PRAGMA foreign_keys = ON, so the
\* FOREIGN KEY ... ON DELETE CASCADE clauses are parsed and not enforced
ForeignKeysEnforced == FALSE

\* the tables declared with FOREIGN KEY ... REFERENCES <parent>(id)
ChildTablesOf(parent) ==
    CASE parent = "tasks" -> TaskTables \ {"tasks"}
      [] parent = "templates" -> TemplateTables \ {"templates"}
      [] OTHER -> {}

ColumnIndex(table, col) ==
    CHOOSE i \in DOMAIN Columns(table) : Columns(table)[i] = col

EmptyDB == [t \in Tables |-> <<>>]

\* sqlite3 binding a Python parameter
adapt(x) ==
    CASE x.py = "NoneType" -> Ok(SqlNull)
      [] x.py = "str" -> Ok(Retag(x, "py", "sql", "TEXT"))
      [] x.py = "int" -> Ok(SqlInt(x.v))
      [] x.py = "bool" -> Ok(SqlInt(IF x.v THEN 1 ELSE 0))
      [] x.py = "float" -> Ok(SqlReal(x.v))
      [] OTHER -> Raise("InterfaceError")

\* the column's type affinity applied to a stored cell
affinity(type, c) ==
    CASE type = "REAL" /\ c.sql = "INTEGER" -> SqlReal(c.v)
      [] type = "INTEGER" /\ c.sql = "REAL" -> SqlInt(c.v)
      [] type = "TEXT" /\ c.sql \in {"INTEGER", "REAL"} -> SqlText(ToString(c.v))
      [] OTHER -> c

\* a cell as sqlite3.Row hands it back
from_sql(c) ==
    CASE c.sql = "NULL" -> PyNone
      [] c.sql = "TEXT" -> Retag(c, "sql", "py", "str")
      [] c.sql = "INTEGER" -> PyInt(c.v)
      [] c.sql = "REAL" -> PyFloat(c.v)

\* dict(row)
dict_of_row(table, row) ==
    [c \in Range(Columns(table)) |-> from_sql(row[ColumnIndex(table, c)])]

\* cursor.execute("INSERT INTO <table> VALUES (?, ...)", params) on the
\* working copy d of the open transaction
Insert(d, table, params) ==
    IF \E i \in DOMAIN params : ~adapt(params[i]).ok
    THEN Raise("InterfaceError")
    ELSE LET cols == Columns(table)
             row == [i \in DOMAIN cols |->
                        affinity(ColumnType(table, cols[i]),
                                 adapt(params[i]).val)]
             cell(r, c) == r[ColumnIndex(table, c)]
         IN  IF \/ \E c \in NotNullColumns(table) : cell(row, c) = SqlNull
                \/ \E c \in UniqueColumns(table) :
                      /\ cell(row, c) # SqlNull
                      /\ \E k \in DOMAIN d[table] :
                            cell(d[table][k], c) = cell(row, c)
             THEN Raise("IntegrityError")
             ELSE Ok([d EXCEPT ![table] = Append(@, row)])

\* mutant: the parent table is not deleted, only the child tables
DeleteFrom_ChildrenOnly(d, ts) ==
    [t \in Tables |->
        IF t \in ts \ {"tasks", "templates"} THEN <<>> ELSE d[t]]

\* mutant: only the parent table is deleted, the children being left to
\* ON DELETE CASCADE
DeleteFrom_ParentsOnly(d, ts) ==
    [t \in Tables |->
        IF t \in ts \cap {"tasks", "templates"} THEN <<>> ELSE d[t]]

\* cursor.execute("DELETE FROM <table>") for each table of ts; were foreign
\* keys enforced, deleting the rows of a parent would delete its children's
DeleteFrom(d, ts) ==
    LET cascaded == IF ForeignKeysEnforced
                    THEN UNION {ChildTablesOf(t) : t \in ts} ELSE {}
    IN  [t \in Tables |-> IF t \in ts \cup cascaded THEN <<>> ELSE d[t]]

\* "SELECT <col> FROM <table> WHERE <key> = ?": the cells, in rowid order
RECURSIVE SelectWhere(_, _, _, _)
SelectWhere(rows, table, key, param) ==
    IF rows = <<>> THEN <<>>
    ELSE LET r == Head(rows)
             c == r[ColumnIndex(table, key)]
             rest == SelectWhere(Tail(rows), table, key, param)
         IN  IF c # SqlNull /\ c = param THEN <<r>> \o rest ELSE rest

(***************************************************************************)
(* storage.py: SQLiteStorage.                                              *)
(***************************************************************************)
\* one INSERT of a save: its table and the parameter tuple, or the
\* exception that building the tuple raises
Stmt(table, params) == [table |-> table, params |-> Ok(params)]
StmtRaises(e) == [table |-> "", params |-> Raise(e)]

\* "for x in <list field>: INSERT INTO <table> VALUES (id, x)"; iterating
\* a field that holds no list raises
ChildStatements(table, id, x) ==
    IF x.py = "list" THEN [i \in DOMAIN x.v |-> Stmt(table, << id, x.v[i] >>)]
    ELSE << StmtRaises("TypeError") >>

\* the parameter tuple of INSERT INTO tasks
TaskRowParams(task) ==
    LET cols == Columns("tasks")
        arg(c) == IF c \in {"is_recurring", "is_template"}
                  THEN int(task[c]) ELSE Ok(task[c])
    IN  IF \E i \in DOMAIN cols : ~arg(cols[i]).ok
        THEN StmtRaises("TypeError")
        ELSE Stmt("tasks", [i \in DOMAIN cols |-> arg(cols[i]).val])

\* the parameter tuple of INSERT INTO time_entries: entry['id'],
\* entry['start_time'] and entry['duration_minutes'] must be keys,
\* entry.get('end_time') and entry.get('notes', '') need not
TimeEntryRowParams(task, entry) ==
    IF entry.py # "dict" THEN StmtRaises("TypeError")
    ELSE IF ~({"id", "start_time", "duration_minutes"} \subseteq DOMAIN entry.v)
    THEN StmtRaises("KeyError")
    ELSE Stmt("time_entries",
              << entry.v["id"], task["id"], entry.v["start_time"],
                 IF "end_time" \in DOMAIN entry.v
                 THEN entry.v["end_time"] ELSE PyNone,
                 entry.v["duration_minutes"],
                 IF "notes" \in DOMAIN entry.v
                 THEN entry.v["notes"] ELSE PyStr("") >>)

\* the body of "for task_id, task in tasks.items()" for one task
TaskStatements(task) ==
    LET entries == task["time_entries"] IN
    << TaskRowParams(task) >>
    \o ChildStatements("task_categories", task["id"], task["categories"])
    \o ChildStatements("task_tags", task["id"], task["tags"])
    \o ChildStatements("task_dependencies", task["id"], task["depends_on"])
    \o (IF entries.py = "list"
        THEN [i \in DOMAIN entries.v |->
                 TimeEntryRowParams(task, entries.v[i])]
        ELSE << StmtRaises("TypeError") >>)

TemplateStatements(template) ==
    LET cols == Columns("templates") IN
    << Stmt("templates", [i \in DOMAIN cols |-> template[cols[i]]]) >>
    \o ChildStatements("template_categories", template["id"],
                       template["categories"])
    \o ChildStatements("template_tags", template["id"], template["tags"])

RECURSIVE Flatten(_)
Flatten(ss) == IF ss = <<>> THEN <<>> ELSE Head(ss) \o Flatten(Tail(ss))

\* the statements of a whole save, the items taken in the order the dict
\* iterates them
AllStatements(kind, items, order) ==
    Flatten([i \in DOMAIN order |->
                IF kind = "tasks" THEN TaskStatements(items[order[i]])
                ELSE TemplateStatements(items[order[i]])])

\* run the statements from the i-th on against the working copy d; fault
\* is the statement at which the database raises an I/O error (0: none).
\* The working copy is returned with the outcome.
RECURSIVE ExecAll(_, _, _, _)
ExecAll(d, stmts, i, fault) ==
    IF i > Len(stmts) THEN [ok |-> TRUE, db |-> d]
    ELSE IF i = fault THEN [ok |-> FALSE, db |-> d]
    ELSE IF ~stmts[i].params.ok THEN [ok |-> FALSE, db |-> d]
    ELSE LET r == Insert(d, stmts[i].table, stmts[i].params.val)
         IN  IF r.ok THEN ExecAll(r.val, stmts, i + 1, fault)
             ELSE [ok |-> FALSE, db |-> d]

\* conn.commit(): the working copy becomes the database
Commit(committed, working) == working

\* mutant: no rollback, the statements run so far stay
Rollback_Missing(committed, working) == working

\* conn.rollback(): the database is what it was when the transaction began
Rollback(committed, working) == committed

\* the try block of save_tasks / save_templates: the DELETEs open the
\* transaction, then the INSERTs, then commit; except: rollback
SQLiteSave(d, tables, stmts, fault) ==
    LET cleared == DeleteFrom(d, tables)
        r == ExecAll(cleared, stmts, 1, fault)
    IN  IF r.ok THEN [ret |-> TRUE, db |-> Commit(d, r.db)]
        ELSE [ret |-> FALSE, db |-> Rollback(d, r.db)]

SQLiteStorage_save_tasks(d, tasks, order, fault) ==
    SQLiteSave(d, TaskTables, AllStatements("tasks", tasks, order), fault)

SQLiteStorage_save_templates(d, templates, order, fault) ==
    SQLiteSave(d, TemplateTables,
               AllStatements("templates", templates, order), fault)

\* the list comprehension over a child table's rows of one parent
ChildColumn(d, table, key, parent, col) ==
    LET rows == SelectWhere(d[table], table, key, adapt(parent).val)
    IN  PyList([i \in DOMAIN rows |->
                   from_sql(rows[i][ColumnIndex(table, col)])])

\* [dict(r) for r in cursor.fetchall()] over SELECT * FROM time_entries
TimeEntryDicts(d, parent) ==
    LET rows == SelectWhere(d["time_entries"], "time_entries", "task_id",
                            adapt(parent).val)
    IN  PyList([i \in DOMAIN rows |->
                   PyDict(dict_of_row("time_entries", rows[i]))])

\* the task_dict that load_tasks builds from one row of tasks
\* mutant: blocked_by is filled from the rows of task_dependencies
TaskDictOfRow_BlockedFromRows(d, row) ==
    LET task_dict == dict_of_row("tasks", row)
        task_id == task_dict["id"]
        extra ==
            [categories |-> ChildColumn(d, "task_categories", "task_id",
                                        task_id, "category"),
             tags |-> ChildColumn(d, "task_tags", "task_id", task_id, "tag"),
             depends_on |-> ChildColumn(d, "task_dependencies", "task_id",
                                        task_id, "depends_on_id"),
             blocked_by |-> ChildColumn(d, "task_dependencies", "task_id",
                                        task_id, "depends_on_id"),
             time_entries |-> TimeEntryDicts(d, task_id)]
    IN  [f \in DOMAIN task_dict \cup DOMAIN extra |->
            IF f \in DOMAIN extra THEN extra[f]
            ELSE IF f \in {"is_recurring", "is_template"}
                 THEN bool(task_dict[f])
                 ELSE task_dict[f]]

TaskDictOfRow(d, row) ==
    LET task_dict == dict_of_row("tasks", row)
        task_id == task_dict["id"]
        extra ==
            [categories |-> ChildColumn(d, "task_categories", "task_id",
                                        task_id, "category"),
             tags |-> ChildColumn(d, "task_tags", "task_id", task_id, "tag"),
             depends_on |-> ChildColumn(d, "task_dependencies", "task_id",
                                        task_id, "depends_on_id"),
             blocked_by |-> PyList(<<>>),
             time_entries |-> TimeEntryDicts(d, task_id)]
    IN  [f \in DOMAIN task_dict \cup DOMAIN extra |->
            IF f \in DOMAIN extra THEN extra[f]
            ELSE IF f \in {"is_recurring", "is_template"}
                 THEN bool(task_dict[f])
                 ELSE task_dict[f]]

TemplateDictOfRow(d, row) ==
    LET template_dict == dict_of_row("templates", row)
        template_id == template_dict["id"]
        extra ==
            [categories |-> ChildColumn(d, "template_categories",
                                        "template_id", template_id,
                                        "category"),
             tags |-> ChildColumn(d, "template_tags", "template_id",
                                  template_id, "tag")]
    IN  [f \in DOMAIN template_dict \cup DOMAIN extra |->
            IF f \in DOMAIN extra THEN extra[f] ELSE template_dict[f]]

\* mutant: a failing SELECT is caught and an empty mapping returned, as
\* the JSON backend does
SQLiteLoad_Degrades(d, table, gen, fault) ==
    IF fault THEN [raised |-> FALSE, value |-> EmptyMap, logged |-> TRUE]
    ELSE LET rows == d[table]
             key(i) == from_sql(rows[i][ColumnIndex(table, "id")]).v
             keys == {key(i) : i \in DOMAIN rows}
             rowOf(k) == rows[CHOOSE i \in DOMAIN rows : key(i) = k]
             dict_of(k) == IF table = "tasks" THEN TaskDictOfRow(d, rowOf(k))
                           ELSE TemplateDictOfRow(d, rowOf(k))
         IN  [raised |-> FALSE,
              value |-> [k \in keys |-> from_dict(table, dict_of(k), gen[k]).val],
              logged |-> FALSE]

\* load_tasks / load_templates: no try; fault is a failing SELECT, and it
\* and an exception of from_dict reach the caller
SQLiteLoad(d, table, gen, fault) ==
    IF fault THEN [raised |-> TRUE, value |-> EmptyMap, logged |-> FALSE]
    ELSE LET rows == d[table]
             key(i) == from_sql(rows[i][ColumnIndex(table, "id")]).v
             keys == {key(i) : i \in DOMAIN rows}
             rowOf(k) == rows[CHOOSE i \in DOMAIN rows : key(i) = k]
             dict_of(k) == IF table = "tasks" THEN TaskDictOfRow(d, rowOf(k))
                           ELSE TemplateDictOfRow(d, rowOf(k))
             obj(k) == from_dict(table, dict_of(k), gen[k])
         IN  IF \E k \in keys : ~obj(k).ok
             THEN [raised |-> TRUE, value |-> EmptyMap, logged |-> FALSE]
             ELSE [raised |-> FALSE, value |-> [k \in keys |-> obj(k).val],
                   logged |-> FALSE]

SQLiteStorage_load_tasks(d, gen, fault) ==
    SQLiteLoad(d, "tasks", gen, fault)

SQLiteStorage_load_templates(d, gen, fault) ==
    SQLiteLoad(d, "templates", gen, fault)

(***************************************************************************)
(* The callers' inputs: tasks and templates as the business layer and the  *)
(* command line build them.                                                *)
(***************************************************************************)
\* Task(id=..., title=...): every other field at its default
NewTask(id, title) ==
    [f \in TaskFields |->
        CASE f = "id" -> PyStr(id)
          [] f = "title" -> PyStr(title)
          [] OTHER -> TaskDefault(f, [uuid |-> id,
                                      now |-> PyStr("2024-01-01T09:00:00")])]

\* a stopped and a running time entry
Entry1 == TimeEntry_to_dict("e1", "2024-01-02T10:00:00",
                            PyStr("2024-01-02T10:45:00"), 45, "draft")
Entry2 == TimeEntry_to_dict("e2", "2024-01-03T08:00:00", PyNone, 0, "")
Entry3 == TimeEntry_to_dict("e3", "2024-01-03T11:00:00",
                            PyStr("2024-01-03T11:10:00"), 10, "")

\* a recurring task with categories, tags, a dependency, a stopped and a
\* running time entry
FullTask1 ==
    [NewTask("t1", "report") EXCEPT
        !["description"] = PyStr("weekly report"),
        !["priority"] = PyStr("high"),
        !["due_date"] = PyStr("2024-01-05T17:00:00"),
        !["categories"] = PyList(<< PyStr("work"), PyStr("home") >>),
        !["tags"] = PyList(<< PyStr("urgent") >>),
        !["is_recurring"] = PyBool(TRUE),
        !["recurrence_type"] = PyStr("daily"),
        !["recurrence_interval"] = PyInt(2),
        !["depends_on"] = PyList(<< PyStr("t2") >>),
        !["time_entries"] = PyList(<< Entry1, Entry2 >>),
        !["estimated_minutes"] = PyInt(30),
        !["reminder_before_minutes"] = PyInt(120)]

PlainTask1 == NewTask("t1", "report")

\* update_task(id, title=None) has run on it
NoTitleTask1 == [PlainTask1 EXCEPT !["title"] = PyNone]

CompletedTask2 ==
    [NewTask("t2", "shopping") EXCEPT
        !["status"] = PyStr("completed"),
        !["completed_at"] = PyStr("2024-01-03T11:10:00"),
        !["categories"] = PyList(<< PyStr("home") >>),
        !["blocked_by"] = PyList(<< PyStr("t1") >>),
        !["time_entries"] = PyList(<< Entry3 >>)]

\* set_priority(id, Priority.HIGH): the enum member, not its value
EnumTask2 == [NewTask("t2", "shopping") EXCEPT !["priority"] = PyEnum("HIGH")]

TaskPool == {FullTask1, PlainTask1, NoTitleTask1, CompletedTask2, EnumTask2}

Template1 ==
    [f \in TemplateFields |->
        CASE f = "id" -> PyStr("p1")
          [] f = "name" -> PyStr("daily")
          [] f = "title" -> PyStr("standup")
          [] f = "categories" -> PyList(<< PyStr("work") >>)
          [] f = "tags" -> PyList(<< PyStr("urgent"), PyStr("team") >>)
          [] f = "estimated_minutes" -> PyInt(15)
          [] OTHER -> TemplateDefault(f, [uuid |-> "p1", now |-> ""])]

Template2 ==
    [f \in TemplateFields |->
        CASE f = "id" -> PyStr("p2")
          [] f = "name" -> PyStr("weekly")
          [] OTHER -> TemplateDefault(f, [uuid |-> "p2", now |-> ""])]

\* create_template called a second time with the name "daily"
SameNameTemplate2 == [Template2 EXCEPT !["name"] = PyStr("daily")]

TemplatePool == {Template1, Template2, SameNameTemplate2}

\* the dicts {x.id: x} over a pool: every key maps to an object with that id
Mappings(pool) ==
    LET ids == {x["id"].v : x \in pool} IN
    UNION {{m \in [S -> pool] : \A k \in S : m[k]["id"].v = k} :
           S \in SUBSET ids}

TaskMappings == Mappings(TaskPool)
TemplateMappings == Mappings(TemplatePool)

Keys == {"t1", "t2", "p1", "p2"}

\* what uuid4() and datetime.now().isoformat() return during one load
Gens ==
    {[k \in Keys |-> [uuid |-> u[k], now |-> PyStr("2024-02-01T12:00:00")]] :
        u \in {f \in [Keys -> {"u1", "u2", "u3", "u4"}] :
                  /\ f["t1"] \in {"u1", "u2"}
                  /\ f["t2"] = (IF f["t1"] = "u1" THEN "u2" ELSE "u1")
                  /\ f["p1"] = "u3" /\ f["p2"] = "u4"}}

(***************************************************************************)
(* A task file written by hand (or by another version of the program):     *)
(* records that lack fields, or carry a field Task does not declare.       *)
(***************************************************************************)
\* the JSON record of task t without the fields of drop, and with the
\* undeclared field "schema_version" when extra is set
CraftedRecord(t, drop, extra) ==
    LET full == json_encode(Task_to_dict(t)).v
        known == [f \in TaskFields \ drop |-> full[f]]
    IN  [j |-> "object",
         v |-> IF extra
               THEN [f \in DOMAIN known \cup {"schema_version"} |->
                        IF f = "schema_version"
                        THEN [j |-> "number", v |-> 2, frac |-> FALSE]
                        ELSE known[f]]
               ELSE known]

\* the file {"tasks": {"t1": <crafted FullTask1>, "t2": <CompletedTask2>}}
CraftedFile(drop, extra) ==
    FileText([j |-> "object",
              v |-> [c \in {"tasks"} |->
                       [j |-> "object",
                        v |-> [k \in {"t1", "t2"} |->
                                 IF k = "t1"
                                 THEN CraftedRecord(FullTask1, drop, extra)
                                 ELSE CraftedRecord(CompletedTask2, {},
                                                    FALSE)]]]])

\* the fields of one feature of the Task dataclass (its commented blocks):
\* a record written before the feature was added lacks them
FeatureFields ==
    { {"categories", "tags"},
      {"is_recurring", "recurrence_type", "recurrence_interval",
       "last_recurrence"},
      {"depends_on", "blocked_by"},
      {"time_entries", "estimated_minutes"},
      {"is_template", "template_name"},
      {"reminder_before_minutes", "last_reminded"} }

\* the sets of fields a hand-written record lacks: none, any single field,
\* the fields of one feature, of every feature, or every field
Drops ==
    {{}} \cup {{f} : f \in TaskFields} \cup FeatureFields
         \cup {UNION FeatureFields, TaskFields}

(***************************************************************************)
(* datetime: an instant is a number of minutes, its isoformat() a str.     *)
(***************************************************************************)
isoformat(n) == PyIsoStr(n)

\* datetime.fromisoformat(x): TypeError on a value that is no str,
\* ValueError on a text that is no ISO date
fromisoformat(x) ==
    IF x.py # "str" THEN Raise("TypeError")
    ELSE IF "iso" \in DOMAIN x THEN Ok(x.iso)
    ELSE Raise("ValueError")

\* timedelta(minutes=m), (hours=h), (days=d), (weeks=w), in minutes
timedelta_minutes(m) == m
timedelta_hours(h) == 60 * h
timedelta_days(d) == 24 * 60 * d
timedelta_weeks(w) == 7 * 24 * 60 * w

\* a value timedelta accepts as a number of units
IsNumber(x) == x.py \in {"int", "float", "bool"}
Number(x) == IF x.py = "bool" THEN (IF x.v THEN 1 ELSE 0) ELSE x.v

(***************************************************************************)
(* models.py: the methods of Task, TimeEntry and TaskTemplate.             *)
(***************************************************************************)
\* d[k] = v added to (or replaced in) a dict
Put(d, k, v) == [x \in DOMAIN d \cup {k} |-> IF x = k THEN v ELSE d[x]]

\* del d[k]
Del(d, k) == [x \in DOMAIN d \ {k} |-> d[x]]

\* setattr(obj, key, value) for each keyword that hasattr finds on obj
SetAttrs(obj, kwargs) ==
    [f \in DOMAIN obj |-> IF f \in DOMAIN kwargs THEN kwargs[f] ELSE obj[f]]

TimeEntryDefault(f, gen) ==
    CASE f = "id" -> PyStr(gen.uuid)
      [] f = "start_time" -> gen.now
      [] f = "end_time" -> PyNone
      [] f = "duration_minutes" -> PyFloat(0)
      [] f = "notes" -> PyStr("")

\* TimeEntry.from_dict: cls(**data)
TimeEntry_from_dict(data, gen) ==
    IF DOMAIN data \subseteq TimeEntryFields
    THEN Ok([f \in TimeEntryFields |->
                IF f \in DOMAIN data THEN data[f]
                ELSE TimeEntryDefault(f, gen)])
    ELSE Raise("TypeError")

\* asdict(entry)
TimeEntry_asdict(entry) == PyDict([f \in TimeEntryFields |-> entry[f]])

update_timestamp(t, now) == [t EXCEPT !["updated_at"] = isoformat(now)]

\* Task.complete
complete(t, now) ==
    update_timestamp([t EXCEPT !["status"] = PyStr("completed"),
                               !["completed_at"] = isoformat(now)], now)

\* mutant: no throttle, a reminder is due at every check after remind_time
needs_reminder_Unthrottled(t, now) ==
    IF ~bool(t["due_date"]).v \/ ~bool(t["reminder_before_minutes"]).v
    THEN Ok(FALSE)
    ELSE IF t["status"] = PyStr("completed") THEN Ok(FALSE)
    ELSE Ok(now >= fromisoformat(t["due_date"]).val
                       - Number(t["reminder_before_minutes"]))

\* Task.needs_reminder, datetime.now() returning now
needs_reminder(t, now) ==
    IF ~bool(t["due_date"]).v \/ ~bool(t["reminder_before_minutes"]).v
    THEN Ok(FALSE)
    ELSE IF t["status"] = PyStr("completed") THEN Ok(FALSE)
    ELSE LET due == fromisoformat(t["due_date"]) IN
         IF ~due.ok THEN due
         ELSE IF ~IsNumber(t["reminder_before_minutes"])
         THEN Raise("TypeError")
         ELSE LET remind_time ==
                      due.val - timedelta_minutes(
                                    Number(t["reminder_before_minutes"]))
              IN  IF now >= remind_time
                  THEN IF bool(t["last_reminded"]).v
                       THEN LET last_r == fromisoformat(t["last_reminded"])
                            IN  IF ~last_r.ok THEN last_r
                                ELSE Ok(~(now - last_r.val
                                            < timedelta_hours(1)))
                       ELSE Ok(TRUE)
                  ELSE Ok(FALSE)

\* Task.can_start(all_tasks)
can_start(t, all_tasks) ==
    \/ ~bool(t["depends_on"]).v
    \/ \A i \in DOMAIN t["depends_on"].v :
          LET dep_id == t["depends_on"].v[i] IN
          /\ dep_id.py = "str"
          /\ "v" \in DOMAIN dep_id
          /\ dep_id.v \in DOMAIN all_tasks
          /\ all_tasks[dep_id.v]["status"] = PyStr("completed")

\* the timedelta one recurrence adds to the due date
RecurrenceDelta(type, interval) ==
    CASE type = PyStr("daily") -> timedelta_days(interval)
      [] type = PyStr("weekly") -> timedelta_weeks(interval)
      [] type = PyStr("monthly") -> timedelta_days(30 * interval)
      [] type = PyStr("yearly") -> timedelta_days(365 * interval)
      [] OTHER -> 0

\* mutant: the next instance keeps the time entries of the completed one
generate_next_recurrence_KeepsEntries(t, gen) ==
    IF ~bool(t["is_recurring"]).v \/ ~bool(t["recurrence_type"]).v
    THEN Ok(PyNone)
    ELSE Ok([t EXCEPT !["id"] = PyStr(gen.uuid),
                      !["status"] = PyStr("pending"),
                      !["completed_at"] = PyNone,
                      !["created_at"] = gen.now,
                      !["updated_at"] = gen.now,
                      !["due_date"] =
                          IF bool(t["due_date"]).v
                          THEN isoformat(
                                   fromisoformat(t["due_date"]).val
                                   + RecurrenceDelta(
                                         t["recurrence_type"],
                                         Number(t["recurrence_interval"])))
                          ELSE t["due_date"],
                      !["last_recurrence"] = gen.now])

\* Task.generate_next_recurrence: None, the next instance, or the
\* exception of a due date that does not parse or an interval that is no
\* number
generate_next_recurrence(t, gen) ==
    IF ~bool(t["is_recurring"]).v \/ ~bool(t["recurrence_type"]).v
    THEN Ok(PyNone)
    ELSE LET copy == Task_from_dict(Task_to_dict(t).v, gen).val
             next_task == [copy EXCEPT !["id"] = PyStr(gen.uuid),
                                       !["status"] = PyStr("pending"),
                                       !["completed_at"] = PyNone,
                                       !["created_at"] = gen.now,
                                       !["updated_at"] = gen.now,
                                       !["time_entries"] = PyList(<<>>),
                                       !["last_recurrence"] = gen.now]
         IN  IF ~bool(t["due_date"]).v THEN Ok(next_task)
             ELSE LET current_due == fromisoformat(t["due_date"]) IN
                  IF ~current_due.ok THEN current_due
                  ELSE IF ~IsNumber(t["recurrence_interval"])
                  THEN Raise("TypeError")
                  ELSE Ok([next_task EXCEPT !["due_date"] =
                              isoformat(current_due.val
                                  + RecurrenceDelta(
                                        t["recurrence_type"],
                                        Number(t["recurrence_interval"])))])

\* mutant: TaskTemplate.create_task hands the template's own lists to the
\* task
CopiedLists_None == {}

\* the list attributes TaskTemplate.create_task copies (list.copy()): the
\* task gets a new list object with the elements of the template's
CopiedLists == {"categories", "tags"}

\* the list attributes of a task made by TaskTemplate.create_task that are
\* the very list object of the template's attribute
SharedWithTemplate == {"categories", "tags"} \ CopiedLists

\* TaskTemplate.create_task
TaskTemplate_create_task(template, gen) ==
    [f \in TaskFields |->
        IF f \in {"title", "description", "priority", "categories", "tags",
                  "estimated_minutes", "reminder_before_minutes"}
        THEN template[f] ELSE TaskDefault(f, gen)]

(***************************************************************************)
(* business_logic.py: TaskManager.  self is [tasks, templates]; a call     *)
(* yields the manager after it, the value returned (or the exception),     *)
(* and whether it reached self.save().                                     *)
(***************************************************************************)
\* what str(uuid4()) and datetime.now().isoformat() return during a call
Gen(uuid, now) == [uuid |-> uuid, now |-> isoformat(now)]

\* the values a call returns: None, a bool, a Task, a TimeEntry, a list
PyObject(class, obj) == [py |-> class, obj |-> obj]
PyObjects(class, objs) == [py |-> "list", of |-> class, objs |-> objs]

Return(self, ret, save) ==
    [tasks |-> self.tasks, templates |-> self.templates, ret |-> ret,
     save |-> save, raised |-> FALSE, exc |-> "", shares |-> {}]

Raised(self, exc) ==
    [tasks |-> self.tasks, templates |-> self.templates, ret |-> PyNone,
     save |-> FALSE, raised |-> TRUE, exc |-> exc, shares |-> {}]

\* the keys of a dict in one iteration order
RECURSIVE KeyOrder(_)
KeyOrder(S) ==
    IF S = {} THEN <<>>
    ELSE LET k == CHOOSE x \in S : TRUE IN <<k>> \o KeyOrder(S \ {k})

\* x in list
Contains(list, x) == \E i \in DOMAIN list.v : list.v[i] = x

\* list.remove(x): the first occurrence goes
Remove(list, x) ==
    LET i == CHOOSE i \in DOMAIN list.v :
                 list.v[i] = x /\ \A j \in 1..(i - 1) : list.v[j] # x
    IN  PyList(SubSeq(list.v, 1, i - 1) \o SubSeq(list.v, i + 1, Len(list.v)))

create_task(self, title, due_date, categories, tags, uuid, now) ==
    LET task == [f \in TaskFields |->
                    CASE f = "title" -> title
                      [] f = "due_date" -> due_date
                      [] f = "categories" ->
                            IF bool(categories).v THEN categories
                            ELSE PyList(<<>>)
                      [] f = "tags" ->
                            IF bool(tags).v THEN tags ELSE PyList(<<>>)
                      [] OTHER -> TaskDefault(f, Gen(uuid, now))]
    IN  Return([self EXCEPT !.tasks = Put(@, task["id"].v, task)],
               PyObject("Task", task), TRUE)

update_task(self, task_id, kwargs, now) ==
    IF task_id \notin DOMAIN self.tasks THEN Return(self, PyNone, FALSE)
    ELSE LET task == update_timestamp(
                         SetAttrs(self.tasks[task_id], kwargs), now)
         IN  Return([self EXCEPT !.tasks[task_id] = task],
                    PyObject("Task", task), TRUE)

\* mutant: deleting a task also takes its id out of every depends_on
delete_task_Cascading(self, task_id) ==
    IF task_id \in DOMAIN self.tasks
    THEN Return([self EXCEPT !.tasks =
                    [k \in DOMAIN self.tasks \ {task_id} |->
                        [self.tasks[k] EXCEPT !["depends_on"] =
                            PyList(SelectSeq(@.v,
                                       LAMBDA d : d # PyStr(task_id)))]]],
                PyBool(TRUE), TRUE)
    ELSE Return(self, PyBool(FALSE), FALSE)

delete_task(self, task_id) ==
    IF task_id \in DOMAIN self.tasks
    THEN Return([self EXCEPT !.tasks = Del(@, task_id)], PyBool(TRUE), TRUE)
    ELSE Return(self, PyBool(FALSE), FALSE)

complete_task(self, task_id, uuid, now) ==
    IF task_id \notin DOMAIN self.tasks THEN Return(self, PyNone, FALSE)
    ELSE LET task == complete(self.tasks[task_id], now)
             done == [self EXCEPT !.tasks[task_id] = task]
         IN  IF ~bool(task["is_recurring"]).v
             THEN Return(done, PyObject("Task", task), TRUE)
             ELSE LET next_task ==
                          generate_next_recurrence(task, Gen(uuid, now))
                  IN  IF ~next_task.ok THEN Raised(done, next_task.exc)
                      ELSE IF next_task.val = PyNone
                      THEN Return(done, PyObject("Task", task), TRUE)
                      ELSE Return([done EXCEPT !.tasks =
                                      Put(@, next_task.val["id"].v,
                                          next_task.val)],
                                  PyObject("Task", task), TRUE)

\* the loop of check_reminders over self.tasks.values(), from the i-th on
RECURSIVE RemindLoop(_, _, _, _, _)
RemindLoop(tasks, order, i, now, reminded) ==
    IF i > Len(order)
    THEN [ok |-> TRUE, exc |-> "", tasks |-> tasks, reminded |-> reminded]
    ELSE LET k == order[i]
             r == needs_reminder(tasks[k], now)
         IN  IF ~r.ok
             THEN [ok |-> FALSE, exc |-> r.exc, tasks |-> tasks,
                   reminded |-> reminded]
             ELSE IF r.val
             THEN RemindLoop(
                      [tasks EXCEPT ![k]["last_reminded"] = isoformat(now)],
                      order, i + 1, now, reminded \cup {k})
             ELSE RemindLoop(tasks, order, i + 1, now, reminded)

check_reminders(self, now) ==
    LET r == RemindLoop(self.tasks, KeyOrder(DOMAIN self.tasks), 1, now, {})
        after == [self EXCEPT !.tasks = r.tasks]
    IN  IF ~r.ok THEN Raised(after, r.exc)
        ELSE Return(after, PyObjects("Task", r.reminded), r.reminded # {})

\* mutant: the value is appended whether or not the list holds it
ListAdd_Unchecked(self, task_id, field, x, now) ==
    IF task_id \notin DOMAIN self.tasks THEN Return(self, PyNone, FALSE)
    ELSE Return([self EXCEPT !.tasks[task_id] =
                    update_timestamp(
                        [self.tasks[task_id] EXCEPT ![field] =
                            PyList(Append(@.v, x))], now)],
                PyObject("Task", self.tasks[task_id]), TRUE)

\* add_category / add_tag on the list field
ListAdd(self, task_id, field, x, now) ==
    IF task_id \notin DOMAIN self.tasks THEN Return(self, PyNone, FALSE)
    ELSE LET task == self.tasks[task_id] IN
         IF Contains(task[field], x)
         THEN Return(self, PyObject("Task", task), FALSE)
         ELSE LET new == update_timestamp(
                             [task EXCEPT ![field] =
                                 PyList(Append(task[field].v, x))], now)
              IN  Return([self EXCEPT !.tasks[task_id] = new],
                         PyObject("Task", new), TRUE)

\* remove_category / remove_tag on the list field
ListRemove(self, task_id, field, x, now) ==
    IF task_id \notin DOMAIN self.tasks THEN Return(self, PyNone, FALSE)
    ELSE LET task == self.tasks[task_id] IN
         IF ~Contains(task[field], x)
         THEN Return(self, PyObject("Task", task), FALSE)
         ELSE LET new == update_timestamp(
                             [task EXCEPT ![field] = Remove(task[field], x)],
                             now)
              IN  Return([self EXCEPT !.tasks[task_id] = new],
                         PyObject("Task", new), TRUE)

add_category(self, task_id, category, now) ==
    ListAdd(self, task_id, "categories", category, now)

remove_category(self, task_id, category, now) ==
    ListRemove(self, task_id, "categories", category, now)

add_tag(self, task_id, tag, now) ==
    ListAdd(self, task_id, "tags", tag, now)

remove_tag(self, task_id, tag, now) ==
    ListRemove(self, task_id, "tags", tag, now)

add_dependency(self, task_id, depends_on_id, now) ==
    IF task_id \notin DOMAIN self.tasks
       \/ depends_on_id \notin DOMAIN self.tasks
    THEN Return(self, PyBool(FALSE), FALSE)
    ELSE LET task == self.tasks[task_id] IN
         IF Contains(task["depends_on"], PyStr(depends_on_id))
         THEN Return(self, PyBool(TRUE), FALSE)
         ELSE LET new == update_timestamp(
                             [task EXCEPT !["depends_on"] =
                                 PyList(Append(task["depends_on"].v,
                                               PyStr(depends_on_id)))], now)
              IN  Return([self EXCEPT !.tasks[task_id] = new],
                         PyBool(TRUE), TRUE)

remove_dependency(self, task_id, depends_on_id, now) ==
    IF task_id \in DOMAIN self.tasks
       /\ Contains(self.tasks[task_id]["depends_on"], PyStr(depends_on_id))
    THEN LET task == self.tasks[task_id]
             new == update_timestamp(
                        [task EXCEPT !["depends_on"] =
                            Remove(task["depends_on"], PyStr(depends_on_id))],
                        now)
         IN  Return([self EXCEPT !.tasks[task_id] = new], PyBool(TRUE), TRUE)
    ELSE Return(self, PyBool(FALSE), FALSE)

\* the ids of the tasks get_blocked_tasks returns
get_blocked_tasks(self) ==
    {k \in DOMAIN self.tasks :
        /\ bool(self.tasks[k]["depends_on"]).v
        /\ ~can_start(self.tasks[k], self.tasks)}

\* the ids of the tasks get_task_dependencies returns, in order
RECURSIVE PresentIds(_, _)
PresentIds(ids, tasks) ==
    IF ids = <<>> THEN <<>>
    ELSE (IF Head(ids).v \in DOMAIN tasks THEN <<Head(ids).v>> ELSE <<>>)
         \o PresentIds(Tail(ids), tasks)

get_task_dependencies(self, task_id) ==
    IF task_id \notin DOMAIN self.tasks THEN <<>>
    ELSE PresentIds(self.tasks[task_id]["depends_on"].v, self.tasks)

start_time_tracking(self, task_id, notes, uuid, now) ==
    IF task_id \notin DOMAIN self.tasks THEN Return(self, PyNone, FALSE)
    ELSE LET entry == [f \in TimeEntryFields |->
                         IF f = "notes" THEN notes
                         ELSE TimeEntryDefault(f, Gen(uuid, now))]
             task == self.tasks[task_id]
             new == update_timestamp(
                        [task EXCEPT !["time_entries"] =
                            PyList(Append(task["time_entries"].v,
                                          TimeEntry_asdict(entry)))], now)
         IN  Return([self EXCEPT !.tasks[task_id] = new],
                    PyObject("TimeEntry", entry), TRUE)

\* the index of the first entry dict with the id entry_id, 0 if none
FirstEntry(entries, entry_id) ==
    LET hits == {i \in DOMAIN entries : entries[i].v["id"] = PyStr(entry_id)}
    IN  IF hits = {} THEN 0
        ELSE CHOOSE i \in hits : \A j \in hits : i <= j

stop_time_tracking(self, task_id, entry_id, now) ==
    IF task_id \notin DOMAIN self.tasks THEN Return(self, PyNone, FALSE)
    ELSE LET task == self.tasks[task_id]
             entries == task["time_entries"].v
             i == FirstEntry(entries, entry_id)
         IN  IF i = 0 THEN Return(self, PyNone, FALSE)
             ELSE LET decoded == TimeEntry_from_dict(entries[i].v,
                                                     Gen("", now))
                  IN  IF ~decoded.ok THEN Raised(self, decoded.exc)
                      ELSE LET start == fromisoformat(
                                            decoded.val["start_time"])
                           IN  IF ~start.ok THEN Raised(self, start.exc)
                               ELSE LET entry ==
                                            [decoded.val EXCEPT
                                                !["end_time"] = isoformat(now),
                                                !["duration_minutes"] =
                                                    PyFloat(now - start.val)]
                                        new == update_timestamp(
                                                   [task EXCEPT
                                                       !["time_entries"] =
                                                           PyList([entries EXCEPT
                                                               ![i] = TimeEntry_asdict(entry)])],
                                                   now)
                                    IN  Return([self EXCEPT
                                                   !.tasks[task_id] = new],
                                               PyObject("TimeEntry", entry),
                                               TRUE)

\* get_active_time_entries: the entries without end_time, decoded, or the
\* exception of the first that does not decode
get_active_time_entries(self, task_id, now) ==
    IF task_id \notin DOMAIN self.tasks THEN Ok(<<>>)
    ELSE LET entries == self.tasks[task_id]["time_entries"].v
             active == SelectSeq(entries,
                           LAMBDA e : \/ "end_time" \notin DOMAIN e.v
                                      \/ ~bool(e.v["end_time"]).v)
         IN  IF \E i \in DOMAIN active :
                   ~TimeEntry_from_dict(active[i].v, Gen("", now)).ok
             THEN Raise("TypeError")
             ELSE Ok([i \in DOMAIN active |->
                         TimeEntry_from_dict(active[i].v, Gen("", now)).val])

create_template(self, name, title, categories, tags, uuid) ==
    LET template ==
            [f \in TemplateFields |->
                CASE f = "name" -> name
                  [] f = "title" -> title
                  [] f = "categories" ->
                        IF bool(categories).v THEN categories
                        ELSE PyList(<<>>)
                  [] f = "tags" ->
                        IF bool(tags).v THEN tags ELSE PyList(<<>>)
                  [] OTHER -> TemplateDefault(f, Gen(uuid, 0))]
    IN  Return([self EXCEPT !.templates = Put(@, template["id"].v, template)],
               PyObject("TaskTemplate", template), TRUE)

create_task_from_template(self, template_name, overrides, uuid, now) ==
    LET order == KeyOrder(DOMAIN self.templates)
        hits == {i \in DOMAIN order :
                    self.templates[order[i]]["name"] = template_name}
    IN  IF hits = {} THEN Return(self, PyNone, FALSE)
        ELSE LET key == order[CHOOSE i \in hits : \A j \in hits : i <= j]
                 template == self.templates[key]
                 task == SetAttrs(
                             TaskTemplate_create_task(template,
                                                      Gen(uuid, now)),
                             overrides)
             IN  [Return([self EXCEPT !.tasks = Put(@, task["id"].v, task)],
                         PyObject("Task", task), TRUE)
                     EXCEPT !.shares =
                         {[task |-> task["id"].v, field |-> f,
                           template |-> key] :
                              f \in SharedWithTemplate \ DOMAIN overrides}]

\* the storage object the manager holds
Storage(b, tf, pf, d) ==
    [backend |-> b, tasksFile |-> tf, templatesFile |-> pf, db |-> d]

\* the database fault an I/O failure of a save is: the first INSERT raises
SQLiteFault(io) == IF io = "ok" THEN 0 ELSE 1

\* self.storage.save_tasks(self.tasks) on either backend
storage_save_tasks(store, tasks, io) ==
    IF store.backend = "json"
    THEN LET r == JSONStorage_save_tasks(store.tasksFile, tasks, io)
         IN  [ret |-> r.ret, store |-> [store EXCEPT !.tasksFile = r.file]]
    ELSE LET r == SQLiteStorage_save_tasks(store.db, tasks,
                                           KeyOrder(DOMAIN tasks),
                                           SQLiteFault(io))
         IN  [ret |-> r.ret, store |-> [store EXCEPT !.db = r.db]]

storage_save_templates(store, templates, io) ==
    IF store.backend = "json"
    THEN LET r == JSONStorage_save_templates(store.templatesFile, templates,
                                             io)
         IN  [ret |-> r.ret,
              store |-> [store EXCEPT !.templatesFile = r.file]]
    ELSE LET r == SQLiteStorage_save_templates(store.db, templates,
                                               KeyOrder(DOMAIN templates),
                                               SQLiteFault(io))
         IN  [ret |-> r.ret, store |-> [store EXCEPT !.db = r.db]]

\* what TaskManager.save leaves: the storage after both saves, and what
\* each save returned
SaveOutcome(a, b) ==
    [store |-> b.store, tasks_saved |-> a.ret, templates_saved |-> b.ret]

\* the second save of TaskManager.save, a being the outcome of the first
SaveTemplatesAfter(a, self, io) ==
    SaveOutcome(a, storage_save_templates(a.store, self.templates,
                                          io.templates))

\* TaskManager.save: both collections are saved, what the saves return is
\* dropped
TaskManager_save(store, self, io) ==
    SaveTemplatesAfter(storage_save_tasks(store, self.tasks, io.tasks),
                       self, io)

\* what TaskManager.load leaves in self.tasks and self.templates, a and b
\* being the outcomes of the two loads
LoadOutcome(a, b) ==
    [tasks |-> a.value, templates |-> b.value,
     raised |-> a.raised \/ b.raised]

\* TaskManager.load, as __init__ calls it
TaskManager_load(store, gen) ==
    LoadOutcome(IF store.backend = "json"
                THEN JSONStorage_load_tasks(store.tasksFile, gen, FALSE)
                ELSE SQLiteStorage_load_tasks(store.db, gen, FALSE),
                IF store.backend = "json"
                THEN JSONStorage_load_templates(store.templatesFile, gen,
                                                FALSE)
                ELSE SQLiteStorage_load_templates(store.db, gen, FALSE))

(***************************************************************************)
(* The state machine: one storage object, its calls one after another.     *)
(***************************************************************************)
NoCall ==
    [op |-> "none", arg |-> EmptyMap, fault |-> "", ret |-> TRUE,
     raised |-> FALSE, value |-> EmptyMap, logged |-> FALSE]

\* the state after JSONStorage() or SQLiteStorage() over absent storage
Init ==
    /\ backend \in {"json", "sqlite"}
    /\ tasksFile = IF backend = "json"
                   THEN JSONStorage_ensure_file(FileAbsent, "tasks")
                   ELSE FileAbsent
    /\ templatesFile = IF backend = "json"
                       THEN JSONStorage_ensure_file(FileAbsent, "templates")
                       ELSE FileAbsent
    /\ db = EmptyDB
    /\ last = NoCall
    /\ manager = [tasks |-> EmptyMap, templates |-> EmptyMap]
    /\ clock = 0
    /\ uuids = 0
    /\ calls = 0
    /\ failures = 0
    /\ shared = {}
    /\ fs = NoFiles
    /\ stores = {}

\* the record of a save: its argument and the boolean it returned
Saved(op, arg, ret) ==
    [op |-> op, arg |-> arg, fault |-> "", ret |-> ret, raised |-> FALSE,
     value |-> EmptyMap, logged |-> ~ret]

\* the record of a load: whether its read was made to fail (fault), and
\* the mapping it returned or that it raised
Loaded(op, fault, r) ==
    [op |-> op, arg |-> EmptyMap, fault |-> fault, ret |-> ~r.raised,
     raised |-> r.raised, value |-> r.value, logged |-> r.logged]

\* an injected read failure, as recorded in last.fault
IOError(b) == IF b THEN "ioerror" ELSE "ok"

JSONSaveTasks ==
    /\ backend = "json"
    /\ \E tasks \in TaskMappings, w \in WriteOutcomes :
          LET r == JSONStorage_save_tasks(tasksFile, tasks, w) IN
          /\ tasksFile' = r.file
          /\ last' = Saved("save_tasks", tasks, r.ret)
    /\ UNCHANGED manager_vars
    /\ UNCHANGED <<backend, fs, stores, templatesFile, db>>

JSONSaveTemplates ==
    /\ backend = "json"
    /\ \E templates \in TemplateMappings, w \in WriteOutcomes :
          LET r == JSONStorage_save_templates(templatesFile, templates, w) IN
          /\ templatesFile' = r.file
          /\ last' = Saved("save_templates", templates, r.ret)
    /\ UNCHANGED manager_vars
    /\ UNCHANGED <<backend, fs, stores, tasksFile, db>>

JSONLoadTasks ==
    /\ backend = "json"
    /\ \E gen \in Gens, ioerr \in BOOLEAN :
          last' = Loaded("load_tasks", IOError(ioerr),
                         JSONStorage_load_tasks(tasksFile, gen, ioerr))
    /\ UNCHANGED manager_vars
    /\ UNCHANGED <<backend, fs, stores, tasksFile, templatesFile, db>>

JSONLoadTemplates ==
    /\ backend = "json"
    /\ \E gen \in Gens, ioerr \in BOOLEAN :
          last' = Loaded("load_templates", IOError(ioerr),
                         JSONStorage_load_templates(templatesFile, gen, ioerr))
    /\ UNCHANGED manager_vars
    /\ UNCHANGED <<backend, fs, stores, tasksFile, templatesFile, db>>

\* the task file is written by hand before the program's first call
EditTasksFile ==
    /\ backend = "json"
    /\ last.op = "none"
    /\ \E drop \in Drops, extra \in BOOLEAN :
          /\ extra => drop = {}
          /\ tasksFile' = CraftedFile(drop, extra)
    /\ last' = [NoCall EXCEPT !.op = "edit"]
    /\ UNCHANGED manager_vars
    /\ UNCHANGED <<backend, fs, stores, templatesFile, db>>

SQLiteSaveTasks ==
    /\ backend = "sqlite"
    /\ \E tasks \in TaskMappings, fault \in 0..MaxFault :
       \E order \in Orders(DOMAIN tasks) :
          LET r == SQLiteStorage_save_tasks(db, tasks, order, fault) IN
          /\ db' = r.db
          /\ last' = Saved("save_tasks", tasks, r.ret)
    /\ UNCHANGED manager_vars
    /\ UNCHANGED <<backend, fs, stores, tasksFile, templatesFile>>

SQLiteSaveTemplates ==
    /\ backend = "sqlite"
    /\ \E templates \in TemplateMappings, fault \in 0..MaxFault :
       \E order \in Orders(DOMAIN templates) :
          LET r == SQLiteStorage_save_templates(db, templates, order, fault) IN
          /\ db' = r.db
          /\ last' = Saved("save_templates", templates, r.ret)
    /\ UNCHANGED manager_vars
    /\ UNCHANGED <<backend, fs, stores, tasksFile, templatesFile>>

SQLiteLoadTasks ==
    /\ backend = "sqlite"
    /\ \E gen \in Gens, fault \in BOOLEAN :
          last' = Loaded("load_tasks", IOError(fault),
                         SQLiteStorage_load_tasks(db, gen, fault))
    /\ UNCHANGED manager_vars
    /\ UNCHANGED <<backend, fs, stores, tasksFile, templatesFile, db>>

SQLiteLoadTemplates ==
    /\ backend = "sqlite"
    /\ \E gen \in Gens, fault \in BOOLEAN :
          last' = Loaded("load_templates", IOError(fault),
                         SQLiteStorage_load_templates(db, gen, fault))
    /\ UNCHANGED manager_vars
    /\ UNCHANGED <<backend, fs, stores, tasksFile, templatesFile, db>>

Next ==
    \/ JSONSaveTasks
    \/ JSONSaveTemplates
    \/ JSONLoadTasks
    \/ JSONLoadTemplates
    \/ EditTasksFile
    \/ SQLiteSaveTasks
    \/ SQLiteSaveTemplates
    \/ SQLiteLoadTasks
    \/ SQLiteLoadTemplates

Spec == Init /\ [][Next]_vars

(***************************************************************************)
(* The state machine of a session: one TaskManager over the storage, its   *)
(* calls one after another, time passing between them, and the program     *)
(* started again over the same storage.                                    *)
(***************************************************************************)
\* str(uuid4()): the n-th call returns a string no other call returns
uuid4(n) == "u" \o ToString(n)

\* the keys a stored record can have, and what the default factories
\* return for each during a load at the instant now
StoredKeys == {uuid4(n) : n \in 1..(MaxUuids + 1)} \cup {"zzz", "t1", "t2"}
LoadGen(now) == [k \in StoredKeys |-> Gen(k, now)]

Store == Storage(backend, tasksFile, templatesFile, db)

AllOk == [tasks |-> "ok", templates |-> "ok"]

\* what the file system or the database lets the two saves of one
\* TaskManager.save do: at most one of them fails
SaveIOs ==
    {AllOk} \cup
    (IF failures = 0 THEN {}
     ELSE LET kinds == IF backend = "json" THEN {"denied", "short"}
                       ELSE {"ioerror"}
          IN  {[tasks |-> k, templates |-> "ok"] : k \in kinds}
                  \cup {[tasks |-> "ok", templates |-> k] : k \in kinds})

\* the record of a TaskManager call
CallRecord(op, id, r, tasks_saved, templates_saved) ==
    [op |-> op, id |-> id, ret |-> r.ret, raised |-> r.raised,
     exc |-> r.exc, saved |-> r.save, tasks_saved |-> tasks_saved,
     templates_saved |-> templates_saved]

\* self.tasks and self.templates as load leaves them
ManagerOf(loaded) == [tasks |-> loaded.tasks, templates |-> loaded.templates]

NoManagerCall ==
    CallRecord("init", "", Return(manager, PyNone, FALSE), TRUE, TRUE)

\* TaskManager(storage) over absent storage, with the calls and the save
\* failures the session is going to see
ManagerInit(budget, faults) ==
    /\ backend \in {"json", "sqlite"}
    /\ tasksFile = IF backend = "json"
                   THEN JSONStorage_ensure_file(FileAbsent, "tasks")
                   ELSE FileAbsent
    /\ templatesFile = IF backend = "json"
                       THEN JSONStorage_ensure_file(FileAbsent, "templates")
                       ELSE FileAbsent
    /\ db = EmptyDB
    /\ clock = 0
    /\ uuids = 0
    /\ calls = budget
    /\ failures = faults
    /\ shared = {}
    /\ fs = NoFiles
    /\ stores = {}
    /\ manager = ManagerOf(TaskManager_load(Store, LoadGen(clock)))
    /\ last = NoManagerCall

\* the calls that change a list attribute of a task in place (append,
\* remove); every other call that changes one binds a new list to it
InPlaceOps == {"add_category", "remove_category", "add_tag", "remove_tag"}

\* the outcome r of a change in place, before being the manager before it:
\* a list that a task shares with a template is changed for the template
\* and for every task that shares it
Aliased(before, r) ==
    LET changed == {a \in shared :
                       /\ a.task \in DOMAIN before.tasks \cap DOMAIN r.tasks
                       /\ r.tasks[a.task][a.field]
                              # before.tasks[a.task][a.field]}
        Now(t, f, old) ==
            IF \E a \in changed : a.template = t /\ a.field = f
            THEN r.tasks[(CHOOSE a \in changed :
                             a.template = t /\ a.field = f).task][f]
            ELSE old
    IN  IF changed = {} THEN r
        ELSE [r EXCEPT
                 !.templates =
                     [t \in DOMAIN r.templates |->
                         [f \in DOMAIN r.templates[t] |->
                             Now(t, f, r.templates[t][f])]],
                 !.tasks =
                     [k \in DOMAIN r.tasks |->
                         [f \in DOMAIN r.tasks[k] |->
                             IF \E a \in shared : a.task = k /\ a.field = f
                             THEN Now((CHOOSE a \in shared :
                                          a.task = k /\ a.field = f).template,
                                      f, r.tasks[k][f])
                             ELSE r.tasks[k][f]]]]

\* the outcome of the call op in memory, its changes in place applied to
\* the shared lists
Effect(op, r) == IF op \in InPlaceOps THEN Aliased(manager, r) ELSE r

\* the lists shared after the call op with outcome r: those the call made,
\* and those before it whose task is still there with the same list
SharedAfter(op, r) ==
    r.shares \cup
    {a \in shared :
        /\ a.task \in DOMAIN r.tasks
        /\ a.template \in DOMAIN r.templates
        /\ \/ op \in InPlaceOps
           \/ r.tasks[a.task][a.field] = manager.tasks[a.task][a.field]}

\* the storage a call leaves whose outcome in memory is r: what
\* self.save() does, if the call reaches it
SaveOf(r, io) ==
    IF r.save THEN TaskManager_save(Store, r, io)
    ELSE [store |-> Store, tasks_saved |-> TRUE, templates_saved |-> TRUE]

\* the state after a call whose outcome in memory is r and whose outcome in
\* the storage is s
CallDone(op, id, r, io, s) ==
    /\ manager' = [tasks |-> r.tasks, templates |-> r.templates]
    /\ tasksFile' = s.store.tasksFile
    /\ templatesFile' = s.store.templatesFile
    /\ db' = s.store.db
    /\ failures' = IF io = AllOk THEN failures ELSE failures - 1
    /\ last' = CallRecord(op, id, r, s.tasks_saved, s.templates_saved)
    /\ shared' = SharedAfter(op, r)

\* a call whose outcome in memory and in the shared lists is r, made while
\* n calls of uuid4
CalledWith(op, id, r, n) ==
    /\ calls > 0
    /\ uuids + n <= MaxUuids
    /\ \E io \in (IF r.save THEN SaveIOs ELSE {AllOk}) :
          CallDone(op, id, r, io, SaveOf(r, io))
    /\ calls' = calls - 1
    /\ uuids' = uuids + n
    /\ UNCHANGED <<backend, fs, stores, clock>>

\* a call whose outcome in memory is r, made while n calls of uuid4
Called(op, id, r, n) == CalledWith(op, id, Effect(op, r), n)

\* bulk_set_category / bulk_set_tag: add_category / add_tag for each id of
\* task_ids in turn, each call saving on its own; acc collects the ids of
\* the tasks returned and counts the saves
RECURSIVE BulkAddLoop(_, _, _, _, _, _, _)
RECURSIVE BulkAddStep(_, _, _, _, _, _, _)
BulkAddLoop(self, store, field, task_ids, x, now, acc) ==
    IF task_ids = <<>>
    THEN [tasks |-> self.tasks, templates |-> self.templates,
          store |-> store, updated |-> acc.updated, saves |-> acc.saves]
    ELSE BulkAddStep(Aliased(self, ListAdd(self, Head(task_ids), field, x,
                                           now)),
                     store, field, task_ids, x, now, acc)

BulkAddStep(r, store, field, task_ids, x, now, acc) ==
    BulkAddLoop([tasks |-> r.tasks, templates |-> r.templates],
                IF r.save THEN TaskManager_save(store, r, AllOk).store
                ELSE store,
                field, Tail(task_ids), x, now,
                [updated |-> IF r.ret = PyNone THEN acc.updated
                             ELSE Append(acc.updated, Head(task_ids)),
                 saves |-> acc.saves + (IF r.save THEN 1 ELSE 0)])

bulk_set_category(self, store, task_ids, category, now) ==
    BulkAddLoop(self, store, "categories", task_ids, category, now,
                [updated |-> <<>>, saves |-> 0])

bulk_set_tag(self, store, task_ids, tag, now) ==
    BulkAddLoop(self, store, "tags", task_ids, tag, now,
                [updated |-> <<>>, saves |-> 0])

TaskKeys == DOMAIN manager.tasks

\* an id no task has
NoSuchId == "nope"

\* the ids of the time entries of a task
EntryIdsOf(t) ==
    {t["time_entries"].v[i].v["id"].v : i \in DOMAIN t["time_entries"].v}

\* the ids a task depends on
DependsOnIds(t) == {t["depends_on"].v[i].v : i \in DOMAIN t["depends_on"].v}

CreateTask ==
    \E due_date \in {PyNone, isoformat(clock + timedelta_hours(1))} :
        Called("create_task", uuid4(uuids + 1),
               create_task(manager, PyStr("report"), due_date, PyNone,
                           PyNone, uuid4(uuids + 1), clock), 1)

\* update_task with a keyword the command line does not offer
UpdateTask ==
    \E task_id \in TaskKeys :
    \E kwargs \in {[title |-> PyNone], [id |-> PyStr("zzz")]} :
        Called("update_task", task_id,
               update_task(manager, task_id, kwargs, clock), 0)

\* set_due_date(task_id, due_date, reminder_minutes)
SetDueDate ==
    \E task_id \in TaskKeys, reminder_minutes \in {30, 120} :
        Called("set_due_date", task_id,
               update_task(manager, task_id,
                           [due_date |->
                                isoformat(clock + timedelta_hours(1)),
                            reminder_before_minutes |->
                                PyInt(reminder_minutes)], clock), 0)

\* make_recurring(task_id, recurrence_type, interval)
MakeRecurring ==
    \E task_id \in TaskKeys :
    \E recurrence_type \in {"daily", "weekly", "monthly", "yearly"} :
        Called("make_recurring", task_id,
               update_task(manager, task_id,
                           [is_recurring |-> PyBool(TRUE),
                            recurrence_type |-> PyStr(recurrence_type),
                            recurrence_interval |-> PyInt(2)], clock), 0)

DeleteTask ==
    \E task_id \in TaskKeys \cup {NoSuchId} :
        Called("delete_task", task_id, delete_task(manager, task_id), 0)

CompleteTask ==
    \E task_id \in TaskKeys :
        Called("complete_task", task_id,
               complete_task(manager, task_id, uuid4(uuids + 1), clock),
               IF /\ bool(manager.tasks[task_id]["is_recurring"]).v
                  /\ bool(manager.tasks[task_id]["recurrence_type"]).v
               THEN 1 ELSE 0)

CheckReminders ==
    Called("check_reminders", "", check_reminders(manager, clock), 0)

AddCategory ==
    \E task_id \in TaskKeys :
        Called("add_category", task_id,
               add_category(manager, task_id, PyStr("work"), clock), 0)

RemoveCategory ==
    \E task_id \in TaskKeys :
        Called("remove_category", task_id,
               remove_category(manager, task_id, PyStr("work"), clock), 0)

AddTag ==
    \E task_id \in TaskKeys :
        Called("add_tag", task_id,
               add_tag(manager, task_id, PyStr("urgent"), clock), 0)

RemoveTag ==
    \E task_id \in TaskKeys :
        Called("remove_tag", task_id,
               remove_tag(manager, task_id, PyStr("urgent"), clock), 0)

AddDependency ==
    \E task_id \in TaskKeys :
    \E depends_on_id \in (TaskKeys \ {task_id}) \cup {NoSuchId} :
        Called("add_dependency", task_id,
               add_dependency(manager, task_id, depends_on_id, clock), 0)

RemoveDependency ==
    \E task_id \in TaskKeys :
    \E depends_on_id \in DependsOnIds(manager.tasks[task_id])
                             \cup {NoSuchId} :
        Called("remove_dependency", task_id,
               remove_dependency(manager, task_id, depends_on_id, clock), 0)

StartTimeTracking ==
    \E task_id \in TaskKeys :
        Called("start_time_tracking", task_id,
               start_time_tracking(manager, task_id, PyStr(""),
                                   uuid4(uuids + 1), clock), 1)

StopTimeTracking ==
    \E task_id \in TaskKeys :
    \E entry_id \in EntryIdsOf(manager.tasks[task_id]) \cup {NoSuchId} :
        Called("stop_time_tracking", task_id,
               stop_time_tracking(manager, task_id, entry_id, clock), 0)

CreateTemplate ==
    \E name \in {"daily", "weekly"} :
        Called("create_template", uuid4(uuids + 1),
               create_template(manager, PyStr(name), PyStr("standup"),
                               PyList(<< PyStr("work") >>), PyNone,
                               uuid4(uuids + 1)), 1)

\* the keyword arguments create_task_from_template is called with
TemplateOverrides == {EmptyMap, [title |-> PyStr("retro")]}

CreateTaskFromTemplate ==
    \E overrides \in TemplateOverrides :
        Called("create_task_from_template", uuid4(uuids + 1),
               create_task_from_template(manager, PyStr("daily"), overrides,
                                         uuid4(uuids + 1), clock), 1)

\* half an hour passes
Tick ==
    /\ clock < MaxTicks * 30
    /\ clock' = clock + 30
    /\ UNCHANGED <<backend, fs, stores, tasksFile, templatesFile, db, last,
                   manager, uuids, calls, failures, shared>>

\* the program ends and is started again: TaskManager(storage) over the
\* storage as it is
Restarted(loaded) ==
    /\ ~loaded.raised
    /\ manager' = ManagerOf(loaded)
    /\ last' = CallRecord("restart", "", Return(loaded, PyNone, FALSE),
                          TRUE, TRUE)

Restart ==
    /\ Restarted(TaskManager_load(Store, LoadGen(clock)))
    /\ shared' = {}
    /\ UNCHANGED <<backend, fs, stores, tasksFile, templatesFile, db, clock,
                   uuids, calls, failures>>

ManagerNext ==
    \/ CreateTask
    \/ UpdateTask
    \/ SetDueDate
    \/ MakeRecurring
    \/ DeleteTask
    \/ CompleteTask
    \/ CheckReminders
    \/ AddCategory
    \/ RemoveCategory
    \/ AddTag
    \/ RemoveTag
    \/ AddDependency
    \/ RemoveDependency
    \/ StartTimeTracking
    \/ StopTimeTracking
    \/ CreateTemplate
    \/ CreateTaskFromTemplate
    \/ Tick
    \/ Restart

\* a session with every operation, some save failing
ManagerSpec == ManagerInit(MaxCalls, MaxFailures) /\ [][ManagerNext]_vars

\* the lists of ids a bulk call is given: unknown ids and repeated ids
\* among them
BulkIds ==
    {<<a>> : a \in TaskKeys \cup {NoSuchId}}
        \cup {<<a, b>> : a \in TaskKeys, b \in TaskKeys \cup {NoSuchId}}

\* the state after a bulk call with outcome r
BulkDone(op, r) ==
    /\ calls > 0
    /\ manager' = [tasks |-> r.tasks, templates |-> r.templates]
    /\ tasksFile' = r.store.tasksFile
    /\ templatesFile' = r.store.templatesFile
    /\ db' = r.store.db
    /\ last' = CallRecord(op, "",
                          Return(r, PyObjects("Task", r.updated),
                                 r.saves > 0), TRUE, TRUE)
    /\ calls' = calls - 1
    /\ UNCHANGED <<backend, fs, stores, clock, uuids, failures, shared>>

BulkSetCategory ==
    \E task_ids \in BulkIds, category \in {"work", "home"} :
        BulkDone("bulk_set_category",
                 bulk_set_category(manager, Store, task_ids,
                                   PyStr(category), clock))

BulkSetTag ==
    \E task_ids \in BulkIds :
        BulkDone("bulk_set_tag",
                 bulk_set_tag(manager, Store, task_ids, PyStr("urgent"),
                              clock))

\* a session of categories, tags and dependencies added and removed, one
\* task or several at a time
ListNext ==
    \/ CreateTask
    \/ AddCategory
    \/ RemoveCategory
    \/ AddTag
    \/ RemoveTag
    \/ AddDependency
    \/ RemoveDependency
    \/ BulkSetCategory
    \/ BulkSetTag
    \/ Restart

ListSpec == ManagerInit(MaxFeatureCalls, 0) /\ [][ListNext]_vars

\* a session of templates: templates created, tasks made from them, and
\* the life of those tasks
TemplateNext ==
    \/ CreateTemplate
    \/ CreateTaskFromTemplate
    \/ AddCategory
    \/ RemoveCategory
    \/ AddTag
    \/ RemoveTag
    \/ UpdateTask
    \/ CompleteTask
    \/ DeleteTask
    \/ Restart

TemplateSpec == ManagerInit(MaxFeatureCalls, 0) /\ [][TemplateNext]_vars

\* a session of time tracking: entries started and stopped as time passes
TrackingNext ==
    \/ CreateTask
    \/ StartTimeTracking
    \/ StopTimeTracking
    \/ Tick
    \/ Restart

TrackingSpec == ManagerInit(MaxFeatureCalls, 0) /\ [][TrackingNext]_vars

\* a session of recurring tasks: created, tracked, made recurring,
\* completed
RecurrenceNext ==
    \/ CreateTask
    \/ StartTimeTracking
    \/ MakeRecurring
    \/ CompleteTask
    \/ Tick
    \/ Restart

RecurrenceSpec == ManagerInit(MaxFeatureCalls, 0) /\ [][RecurrenceNext]_vars

\* a session of reminders: tasks created, given a due date and a reminder,
\* completed, checked for reminders as time passes
ReminderNext ==
    \/ CreateTask
    \/ SetDueDate
    \/ CompleteTask
    \/ CheckReminders
    \/ Tick
    \/ Restart

ReminderSpec == ManagerInit(MaxFeatureCalls, 0) /\ [][ReminderNext]_vars

\* a session of dependencies: tasks created, made to depend on each other,
\* completed, deleted
DependencyNext ==
    \/ CreateTask
    \/ AddDependency
    \/ RemoveDependency
    \/ CompleteTask
    \/ DeleteTask
    \/ Restart

DependencySpec == ManagerInit(MaxFeatureCalls, 0) /\ [][DependencyNext]_vars

\* a session over a task file that was there before the program started:
\* cut short (malformed JSON), holding a record with a field Task does not
\* declare (Task.from_dict raises on it), or as the program writes it
FoundTaskFiles == {FilePartial, CraftedFile({}, TRUE), CraftedFile({}, FALSE)}

\* TaskManager(JSONStorage()) over such a file
RecoveryInit ==
    /\ backend = "json"
    /\ tasksFile \in FoundTaskFiles
    /\ templatesFile = JSONStorage_ensure_file(FileAbsent, "templates")
    /\ db = EmptyDB
    /\ clock = 0
    /\ uuids = 0
    /\ calls = MaxFeatureCalls
    /\ failures = 0
    /\ shared = {}
    /\ fs = NoFiles
    /\ stores = {}
    /\ manager = ManagerOf(TaskManager_load(Store, LoadGen(clock)))
    /\ last = NoManagerCall

RecoveryNext ==
    \/ CreateTask
    \/ CreateTemplate
    \/ AddCategory
    \/ CompleteTask
    \/ DeleteTask
    \/ Restart

RecoverySpec == RecoveryInit /\ [][RecoveryNext]_vars

(***************************************************************************)
(* The state machine of a working directory: storage objects are           *)
(* constructed over the files and the database as they are, and called.    *)
(***************************************************************************)
\* the CREATE TABLE IF NOT EXISTS statements of _init_db, in order
TableOrder ==
    << "tasks", "task_categories", "task_tags", "task_dependencies",
       "time_entries", "templates", "template_categories", "template_tags" >>

\* _init_db mutant: CREATE TABLE replaces the tables there are
SQLiteStorage_init_db_Recreates(d, n) ==
    [t \in DOMAIN d \cup {TableOrder[i] : i \in 1..n} |->
        IF t \in {TableOrder[i] : i \in 1..n} THEN <<>> ELSE d[t]]

\* _init_db: the first n statements have run (all of them, unless the
\* process is stopped in between); each creates its table if it is missing
SQLiteStorage_init_db(d, n) ==
    [t \in DOMAIN d \cup {TableOrder[i] : i \in 1..n} |->
        IF t \in DOMAIN d THEN d[t] ELSE <<>>]

\* no database file: no table
AbsentDB == [t \in {} |-> <<>>]

\* the path SQLiteStorage() is constructed with
DBPath == "tasks.db"

\* the storage object constructed with path, over the files and the
\* database as they are
StoreAt(files, d, path) ==
    IF backend = "json"
    THEN Storage("json", files[path], files[templates_filepath(path)], d)
    ELSE Storage("sqlite", FileAbsent, FileAbsent, d)

storage_load_tasks(store, gen) ==
    IF store.backend = "json"
    THEN JSONStorage_load_tasks(store.tasksFile, gen, FALSE)
    ELSE SQLiteStorage_load_tasks(store.db, gen, FALSE)

storage_load_templates(store, gen) ==
    IF store.backend = "json"
    THEN JSONStorage_load_templates(store.templatesFile, gen, FALSE)
    ELSE SQLiteStorage_load_templates(store.db, gen, FALSE)

\* the mappings the callers of this state machine save
SomeTasks == {"t1" :> PlainTask1, "t2" :> CompletedTask2}
SomeTemplates ==
    {"p1" :> Template1, ("p1" :> Template1) @@ ("p2" :> Template2)}

StoreCall(op, path, arg, ret, value) ==
    [op |-> op, store |-> path, arg |-> arg, ret |-> ret, value |-> value]

StoresInit ==
    /\ backend \in {"json", "sqlite"}
    /\ fs = NoFiles
    /\ db = AbsentDB
    /\ stores = {}
    /\ last = StoreCall("none", "", EmptyMap, TRUE, EmptyMap)
    /\ tasksFile = FileAbsent
    /\ templatesFile = FileAbsent
    /\ manager = [tasks |-> EmptyMap, templates |-> EmptyMap]
    /\ clock = 0
    /\ uuids = 0
    /\ calls = 0
    /\ failures = 0
    /\ shared = {}

\* JSONStorage(path)
ConstructJSON ==
    /\ backend = "json"
    /\ \E path \in TaskPaths :
          /\ fs' = JSONStorage_ensure_files(fs, path)
          /\ stores' = stores \cup {path}
          /\ last' = StoreCall("construct", path, EmptyMap, TRUE, EmptyMap)
    /\ UNCHANGED manager_vars
    /\ UNCHANGED <<backend, tasksFile, templatesFile, db>>

\* SQLiteStorage(): _init_db runs to its end, or the process is stopped
\* after n statements and no storage object comes to be
ConstructSQLite ==
    /\ backend = "sqlite"
    /\ \E n \in 1..Len(TableOrder) :
          /\ db' = SQLiteStorage_init_db(db, n)
          /\ stores' = IF n = Len(TableOrder) THEN stores \cup {DBPath}
                       ELSE stores
          /\ last' = StoreCall("construct", DBPath, EmptyMap,
                               n = Len(TableOrder), EmptyMap)
    /\ UNCHANGED manager_vars
    /\ UNCHANGED <<backend, tasksFile, templatesFile, fs>>

\* what a save through the storage object constructed with path leaves,
\* r being what the save returned and written the file it writes
StoreSaved(op, path, arg, r, written) ==
    /\ fs' = IF backend = "json"
             THEN [fs EXCEPT ![written] = IF op = "save_tasks"
                                          THEN r.store.tasksFile
                                          ELSE r.store.templatesFile]
             ELSE fs
    /\ db' = r.store.db
    /\ last' = StoreCall(op, path, arg, r.ret, EmptyMap)
    /\ UNCHANGED manager_vars
    /\ UNCHANGED <<backend, tasksFile, templatesFile, stores>>

StoreSaveTasks ==
    \E path \in stores, tasks \in SomeTasks, io \in WriteOutcomes :
        StoreSaved("save_tasks", path, tasks,
                   storage_save_tasks(StoreAt(fs, db, path), tasks, io),
                   path)

StoreSaveTemplates ==
    \E path \in stores, templates \in SomeTemplates, io \in WriteOutcomes :
        StoreSaved("save_templates", path, templates,
                   storage_save_templates(StoreAt(fs, db, path), templates,
                                          io),
                   templates_filepath(path))

StoreLoaded(op, path, r) ==
    /\ last' = StoreCall(op, path, EmptyMap, ~r.raised, r.value)
    /\ UNCHANGED manager_vars
    /\ UNCHANGED <<backend, tasksFile, templatesFile, db, fs, stores>>

StoreLoadTasks ==
    \E path \in stores, gen \in Gens :
        StoreLoaded("load_tasks", path,
                    storage_load_tasks(StoreAt(fs, db, path), gen))

StoreLoadTemplates ==
    \E path \in stores, gen \in Gens :
        StoreLoaded("load_templates", path,
                    storage_load_templates(StoreAt(fs, db, path), gen))

StoresNext ==
    \/ ConstructJSON
    \/ ConstructSQLite
    \/ StoreSaveTasks
    \/ StoreSaveTemplates
    \/ StoreLoadTasks
    \/ StoreLoadTemplates

StoresSpec == StoresInit /\ [][StoresNext]_vars

(***************************************************************************)
(* Properties.                                                             *)
(***************************************************************************)
\* what load_tasks() / load_templates() return from the persisted state as
\* it is, the read succeeding
LoadTasksNow(gen) ==
    IF backend = "json" THEN JSONStorage_load_tasks(tasksFile, gen, FALSE)
    ELSE SQLiteStorage_load_tasks(db, gen, FALSE)

LoadTemplatesNow(gen) ==
    IF backend = "json"
    THEN JSONStorage_load_templates(templatesFile, gen, FALSE)
    ELSE SQLiteStorage_load_templates(db, gen, FALSE)

SavedOk(op) == last.op = op /\ last.ret

\* a task with categories, tags, dependencies, a stopped and a running
\* time entry
Populated(t) ==
    /\ t["categories"].v # <<>>
    /\ t["tags"].v # <<>>
    /\ t["depends_on"].v # <<>>
    /\ \E i \in DOMAIN t["time_entries"].v :
          t["time_entries"].v[i].v["end_time"] # PyNone
    /\ \E i \in DOMAIN t["time_entries"].v :
          t["time_entries"].v[i].v["end_time"] = PyNone

\* the mapping {t.id: t} of one populated task was the argument of the
\* last call
SavedOnePopulated ==
    /\ Cardinality(DOMAIN last.arg) = 1
    /\ \A k \in DOMAIN last.arg : Populated(last.arg[k])

\* C1: on the SQLite backend, after save_tasks({t.id: t}) of a populated
\* task t has succeeded, load_tasks() returns a mapping holding under t.id a
\* task equal to t in every field, time-entry dicts included.
C1_SQLiteRoundTrip ==
    (backend = "sqlite" /\ SavedOk("save_tasks") /\ SavedOnePopulated) =>
        \A gen \in Gens :
            /\ ~LoadTasksNow(gen).raised
            /\ LoadTasksNow(gen).value = last.arg

\* C2: on the JSON backend, after save_tasks({t.id: t}) of a populated task
\* t has succeeded, load_tasks() returns exactly that mapping; and after
\* save_templates(M) has succeeded, load_templates() returns M.
C2_JSONRoundTrip ==
    backend = "json" =>
        /\ (SavedOk("save_tasks") /\ SavedOnePopulated) =>
              \A gen \in Gens :
                  /\ ~LoadTasksNow(gen).logged
                  /\ LoadTasksNow(gen).value = last.arg
        /\ SavedOk("save_templates") =>
              \A gen \in Gens :
                  /\ ~LoadTemplatesNow(gen).logged
                  /\ LoadTemplatesNow(gen).value = last.arg

C2_Witness ==
    /\ backend = "json"
    /\ SavedOk("save_tasks")
    /\ last.arg = ("t1" :> FullTask1)
    /\ tasksFile.st = "text"

\* the ids of a task's time entries, in order
EntryIds(t) ==
    [i \in DOMAIN t["time_entries"].v |-> t["time_entries"].v[i].v["id"]]

\* two tasks with the same categories, tags, dependencies and time entries
SameChildren(a, b) ==
    /\ a["categories"] = b["categories"]
    /\ a["tags"] = b["tags"]
    /\ a["depends_on"] = b["depends_on"]
    /\ EntryIds(a) = EntryIds(b)

\* the rows of the tables ts whose column col holds the text id
RowsOf(ts, col, id) ==
    {<<t, i>> \in UNION {{t} \X DOMAIN db[t] : t \in ts} :
        db[t][i][ColumnIndex(t, col)] = SqlText(id)}

TaskChildTables == ChildTablesOf("tasks")
TemplateChildTables == ChildTablesOf("templates")
TaskIds == {t["id"].v : t \in TaskPool}
TemplateIds == {t["id"].v : t \in TemplatePool}

\* C3: in both backends, after a successful save_tasks(M), whatever was
\* saved before, load_tasks() returns a mapping with exactly the ids of M,
\* each task with exactly the categories, tags, dependencies and time
\* entries M gives it, and the relational child tables hold no row of an id
\* outside M; after a successful save_templates(M), load_templates()
\* returns M.
C3_FullReplace ==
    /\ SavedOk("save_tasks") =>
          /\ \A gen \in Gens :
                /\ ~LoadTasksNow(gen).raised
                /\ ~LoadTasksNow(gen).logged
                /\ DOMAIN LoadTasksNow(gen).value = DOMAIN last.arg
                /\ \A k \in DOMAIN last.arg :
                      SameChildren(LoadTasksNow(gen).value[k], last.arg[k])
          /\ \A id \in TaskIds \ DOMAIN last.arg :
                RowsOf({"tasks"}, "id", id)
                    \cup RowsOf(TaskChildTables, "task_id", id) = {}
    /\ SavedOk("save_templates") =>
          /\ \A gen \in Gens :
                /\ ~LoadTemplatesNow(gen).raised
                /\ LoadTemplatesNow(gen).value = last.arg
          /\ \A id \in TemplateIds \ DOMAIN last.arg :
                RowsOf(TemplateChildTables, "template_id", id) = {}

C3_Witness ==
    /\ backend = "sqlite"
    /\ SavedOk("save_tasks")
    /\ last.arg = ("t2" :> CompletedTask2)
    /\ Len(db["templates"]) = 2

\* an argument of save_tasks / save_templates with a row the schema or the
\* driver refuses: a task without title (NOT NULL), a field that is no SQL
\* value, two templates of one name (UNIQUE)
Uninsertable(op, arg) ==
    IF op = "save_tasks"
    THEN \E k \in DOMAIN arg :
            \/ arg[k]["title"] = PyNone
            \/ arg[k]["priority"].py \notin {"str", "NoneType"}
    ELSE \E k1, k2 \in DOMAIN arg :
            k1 # k2 /\ arg[k1]["name"] = arg[k2]["name"]

\* C4: a save_tasks or save_templates call on the SQLite backend during
\* which an insertion fails returns failure, and every call that returns
\* failure leaves the database exactly as it was before the call.
C4_SaveRollsBack ==
    [][(backend = "sqlite" /\ last'.op \in {"save_tasks", "save_templates"})
        => /\ Uninsertable(last'.op, last'.arg) => ~last'.ret
           /\ ~last'.ret => db' = db]_vars

C4_Witness ==
    /\ backend = "sqlite"
    /\ last.op = "save_tasks"
    /\ ~last.ret
    /\ Uninsertable(last.op, last.arg)
    /\ db["tasks"] # <<>>
    /\ db["time_entries"] # <<>>

\* C5: every save_tasks call on the JSON backend either returns success,
\* after which load_tasks() returns the new mapping, or returns failure,
\* after which load_tasks() returns what it returned before the call.
C5_JSONSaveAtomic ==
    [][(backend = "json" /\ last'.op = "save_tasks") =>
        \A gen \in Gens :
            IF last'.ret
            THEN JSONStorage_load_tasks(tasksFile', gen, FALSE).value
                     = last'.arg
            ELSE JSONStorage_load_tasks(tasksFile', gen, FALSE).value
                     = JSONStorage_load_tasks(tasksFile, gen, FALSE).value]_vars

\* C6: in each backend, when save_tasks(M) succeeds twice in a row,
\* load_tasks() returns a mapping equal to M after the first call and
\* after the second.
C6_SaveIdempotent ==
    [][(/\ SavedOk("save_tasks")
        /\ last'.op = "save_tasks" /\ last'.ret
        /\ last'.arg = last.arg)
        => \A gen \in Gens :
              /\ LoadTasksNow(gen).value = last.arg
              /\ (IF backend = "json"
                  THEN JSONStorage_load_tasks(tasksFile', gen, FALSE)
                  ELSE SQLiteStorage_load_tasks(db', gen, FALSE)).value
                      = last.arg]_vars

\* C7: on the SQLite backend, after a successful save_tasks whose mapping
\* does not contain task A, the tables task_categories, task_tags,
\* task_dependencies and time_entries hold no row whose task_id is A's id.
C7_CascadeDelete ==
    (backend = "sqlite" /\ SavedOk("save_tasks")) =>
        \A A \in TaskIds \ DOMAIN last.arg :
            RowsOf(TaskChildTables, "task_id", A) = {}

C7_Witness ==
    /\ backend = "sqlite"
    /\ SavedOk("save_tasks")
    /\ "t1" \notin DOMAIN last.arg
    /\ RowsOf(TaskChildTables, "task_id", "t2") # {}

\* the file a JSON load reads
FileOf(op) == IF op = "load_tasks" THEN tasksFile ELSE templatesFile

\* C8: a load of the JSON backend never raises, and returns an empty
\* mapping when the read fails or the file does not parse; a load of the
\* SQLite backend whose read fails raises to the caller.
C8_LoadFailureAsymmetry ==
    last.op \in {"load_tasks", "load_templates"} =>
        /\ backend = "json" =>
              /\ ~last.raised
              /\ (last.fault = "ioerror" \/ FileOf(last.op).st # "text") =>
                    last.value = EmptyMap /\ last.logged
        /\ (backend = "sqlite" /\ last.fault = "ioerror") => last.raised

C8_Witness ==
    /\ backend = "json"
    /\ last.op = "load_tasks"
    /\ last.fault = "ok"
    /\ tasksFile = FilePartial
    /\ templatesFile.st = "text"
    /\ last.value = EmptyMap
    /\ ~last.raised

\* C9: load_tasks of a task file whose record of FullTask1 lacks the fields
\* of D returns both records of the file, the crafted one with every field
\* of D at its declared default and every other field as recorded.
C9_MissingFieldDefaults ==
    (backend = "json" /\ last.op = "load_tasks" /\ last.fault = "ok") =>
        \A D \in Drops :
            tasksFile = CraftedFile(D, FALSE) =>
                /\ ~last.logged
                /\ DOMAIN last.value = {"t1", "t2"}
                /\ last.value["t2"] = CompletedTask2
                /\ \E gen \in Gens :
                      \A f \in TaskFields :
                          last.value["t1"][f] =
                              IF f \in D THEN TaskDefault(f, gen["t1"])
                              ELSE FullTask1[f]

C9_Witness ==
    /\ backend = "json"
    /\ last.op = "load_tasks"
    /\ last.fault = "ok"
    /\ tasksFile = CraftedFile(UNION FeatureFields, FALSE)
    /\ "t1" \in DOMAIN last.value
    /\ last.value["t1"]["time_entries"] = PyList(<<>>)
    /\ last.value["t1"]["recurrence_interval"] = PyInt(1)
    /\ last.value["t1"]["title"] = PyStr("report")

\* C10: load_tasks of a task file whose record of FullTask1 carries a field
\* Task does not declare returns both tasks of the file, the crafted one
\* with all its known fields.
C10_UnknownFieldDropped ==
    (/\ backend = "json" /\ last.op = "load_tasks" /\ last.fault = "ok"
     /\ tasksFile = CraftedFile({}, TRUE))
        => /\ DOMAIN last.value = {"t1", "t2"}
           /\ last.value["t1"] = FullTask1
           /\ last.value["t2"] = CompletedTask2

\* two templates of the mapping M carry the same name
DuplicateNames(M) ==
    \E k1, k2 \in DOMAIN M : k1 # k2 /\ M[k1]["name"] = M[k2]["name"]

\* C11: save_templates(M) with two templates of one name in M fails on the
\* SQLite backend and leaves load_templates() returning what it returned
\* before; on the JSON backend it succeeds whenever the file can be
\* written, and load_templates() then returns M with both templates.
C11_DuplicateTemplateNames ==
    [][(last'.op = "save_templates" /\ DuplicateNames(last'.arg)) =>
        \A gen \in Gens :
            IF backend = "sqlite"
            THEN /\ ~last'.ret
                 /\ SQLiteStorage_load_templates(db', gen, FALSE)
                        = SQLiteStorage_load_templates(db, gen, FALSE)
            ELSE LET r == JSONStorage_save_templates(templatesFile,
                                                     last'.arg, "ok")
                 IN  /\ r.ret
                     /\ JSONStorage_load_templates(r.file, gen, FALSE).value
                            = last'.arg
                     /\ last'.ret =>
                            JSONStorage_load_templates(templatesFile', gen,
                                                       FALSE).value
                                = last'.arg]_vars

C11_Witness ==
    /\ backend = "sqlite"
    /\ last.op = "save_templates"
    /\ DuplicateNames(last.arg)
    /\ ~last.ret
    /\ Len(db["templates"]) = 1

\* save_tasks(M) then load_tasks() on a JSON store and on a SQLite store
\* that held nothing
JSONRoundTrip(M, gen) ==
    LET s == JSONStorage_save_tasks(FileAbsent, M, "ok")
    IN  [saved |-> s.ret,
         value |-> JSONStorage_load_tasks(s.file, gen, FALSE).value]

SQLiteRoundTrip(M, gen) ==
    LET order == CHOOSE o \in Orders(DOMAIN M) : TRUE
        s == SQLiteStorage_save_tasks(EmptyDB, M, order, 0)
    IN  [saved |-> s.ret,
         value |-> SQLiteStorage_load_tasks(s.db, gen, FALSE).value]

\* C12: whenever save_tasks(M) has succeeded on one backend and succeeds on
\* the other too, load_tasks() returns the same mapping, field for field,
\* from both.
C12_CrossBackendEquivalence ==
    SavedOk("save_tasks") =>
        \A gen \in Gens :
            LET other == IF backend = "json"
                         THEN SQLiteRoundTrip(last.arg, gen)
                         ELSE JSONRoundTrip(last.arg, gen)
            IN  other.saved => LoadTasksNow(gen).value = other.value

\* C19: on the SQLite backend, after every successful save_tasks, the
\* depends_on_id of each row of task_dependencies is the id of a row of
\* tasks.
C19_NoDanglingDependencyRows ==
    (backend = "sqlite" /\ SavedOk("save_tasks")) =>
        \A i \in DOMAIN db["task_dependencies"] :
            \E j \in DOMAIN db["tasks"] :
                db["tasks"][j][ColumnIndex("tasks", "id")]
                    = db["task_dependencies"][i][
                          ColumnIndex("task_dependencies", "depends_on_id")]

(***************************************************************************)
(* Properties of the TaskManager sessions.                                 *)
(***************************************************************************)
\* what a TaskManager constructed now over the storage would hold
Persisted == TaskManager_load(Store, LoadGen(clock))

\* the last step was a TaskManager call that reached self.save(), and both
\* saves returned success
SavedAll ==
    /\ last.op \notin {"init", "restart"}
    /\ ~last.raised
    /\ last.saved /\ last.tasks_saved /\ last.templates_saved

\* C13: after every TaskManager operation that has changed the tasks or
\* templates in memory and whose saves succeeded, load_tasks() and
\* load_templates() return mappings equal to manager.tasks and
\* manager.templates.
C13_PersistAfterMutation ==
    SavedAll =>
        /\ ~Persisted.raised
        /\ Persisted.tasks = manager.tasks
        /\ Persisted.templates = manager.templates

\* C14: a TaskManager operation during which a save returns failure still
\* returns normally with its mutation in memory, the collection whose save
\* failed loads as it did before the call, and a collection whose save
\* succeeds loads equal to the one in memory.
C14_FailedSaveNonFatal ==
    [][(calls' # calls /\ last'.saved) =>
        /\ ~last'.raised
        /\ last'.ret.py = "Task" =>
              \E k \in DOMAIN manager'.tasks :
                  manager'.tasks[k] = last'.ret.obj
        /\ ~last'.tasks_saved => Persisted'.tasks = Persisted.tasks
        /\ ~last'.templates_saved =>
              Persisted'.templates = Persisted.templates
        /\ last'.tasks_saved => Persisted'.tasks = manager'.tasks
        /\ last'.templates_saved =>
              Persisted'.templates = manager'.templates]_vars

\* C17: every key k of manager.tasks maps to a task whose id is k, and no
\* step changes the id of a task that stays in manager.tasks.
C17_TaskIdentity ==
    /\ [](\A k \in DOMAIN manager.tasks : manager.tasks[k]["id"] = PyStr(k))
    /\ [][\A k \in DOMAIN manager.tasks \cap DOMAIN manager'.tasks :
             last'.op # "restart" =>
                 manager'.tasks[k]["id"] = manager.tasks[k]["id"]]_vars

\* the minutes in one unit of each recurrence type
UnitMinutes(type) ==
    CASE type = "daily" -> 24 * 60
      [] type = "weekly" -> 7 * 24 * 60
      [] type = "monthly" -> 30 * 24 * 60
      [] type = "yearly" -> 365 * 24 * 60

\* the ids of the tasks of a manager
IdsOf(tasks) == {tasks[k]["id"] : k \in DOMAIN tasks}

\* task t before the call is recurring, with a recurrence type and a due
\* date
RecurringDue(t) ==
    /\ bool(t["is_recurring"]).v
    /\ t["recurrence_type"].py = "str"
    /\ t["due_date"].py = "str"

\* C15: every complete_task call on a task with is_recurring set, a
\* recurrence_type and a due_date D marks that task completed, with
\* completed_at stamped, and adds exactly one task: its id is no id that
\* existed, its status is "pending", completed_at is absent, time_entries
\* is empty and due_date is D plus recurrence_interval units of the type;
\* completing a task that is not recurring adds no task.
C15_RecurrenceOnCompletion ==
    [][(/\ calls' # calls
        /\ last'.op = "complete_task"
        /\ last'.id \in DOMAIN manager.tasks) =>
        LET t == manager.tasks[last'.id]
            new == DOMAIN manager'.tasks \ DOMAIN manager.tasks
        IN  /\ ~last'.raised
            /\ manager'.tasks[last'.id]["status"] = PyStr("completed")
            /\ manager'.tasks[last'.id]["completed_at"] = PyIsoStr(clock)
            /\ DOMAIN manager.tasks \subseteq DOMAIN manager'.tasks
            /\ RecurringDue(t) =>
                  /\ Cardinality(new) = 1
                  /\ \A n \in new :
                        LET next_task == manager'.tasks[n] IN
                        /\ next_task["id"] = PyStr(n)
                        /\ next_task["id"] \notin IdsOf(manager.tasks)
                        /\ next_task["status"] = PyStr("pending")
                        /\ next_task["completed_at"] = PyNone
                        /\ next_task["time_entries"] = PyList(<<>>)
                        /\ next_task["due_date"] =
                              PyIsoStr(t["due_date"].iso
                                       + t["recurrence_interval"].v
                                           * UnitMinutes(
                                                 t["recurrence_type"].v))
            /\ ~bool(t["is_recurring"]).v => new = {}]_vars

\* a recurring task with a due date and a time entry has been completed,
\* and its next instance is there
C15_Witness ==
    /\ last.op = "complete_task"
    /\ last.id \in DOMAIN manager.tasks
    /\ RecurringDue(manager.tasks[last.id])
    /\ manager.tasks[last.id]["status"] = PyStr("completed")
    /\ manager.tasks[last.id]["time_entries"] # PyList(<<>>)
    /\ \E n \in DOMAIN manager.tasks :
          /\ manager.tasks[n]["status"] = PyStr("pending")
          /\ manager.tasks[n]["last_recurrence"] # PyNone


\* task t is not completed, has a due date and a positive reminder, and
\* the instant now is not before due_date - reminder_before_minutes
ReminderDue(t, now) ==
    /\ t["status"] # PyStr("completed")
    /\ t["due_date"].py = "str"
    /\ t["reminder_before_minutes"].py = "int"
    /\ t["reminder_before_minutes"].v > 0
    /\ now >= t["due_date"].iso - t["reminder_before_minutes"].v

\* C16: for a task that is not completed, with a due date and a positive
\* reminder_before_minutes, at an instant not before due_date minus the
\* reminder, needs_reminder() is true when last_reminded is absent, false
\* at every instant before last_reminded + 1 hour and true from then on;
\* it is false for a completed task and for a task without due date; and
\* check_reminders returns the tasks that need a reminder and sets
\* last_reminded of each to the instant of the call.
C16_ReminderThrottling ==
    /\ [](\A k \in DOMAIN manager.tasks :
            LET t == manager.tasks[k] IN
            /\ (t["status"] = PyStr("completed") \/ t["due_date"] = PyNone)
                  => needs_reminder(t, clock) = Ok(FALSE)
            /\ ReminderDue(t, clock) =>
                  needs_reminder(t, clock) =
                      Ok(IF t["last_reminded"] = PyNone THEN TRUE
                         ELSE clock >= t["last_reminded"].iso + 60))
    /\ [][(calls' # calls /\ last'.op = "check_reminders") =>
            /\ ~last'.raised
            /\ last'.ret.objs =
                  {k \in DOMAIN manager.tasks :
                      needs_reminder(manager.tasks[k], clock) = Ok(TRUE)}
            /\ \A k \in last'.ret.objs :
                  manager'.tasks[k]["last_reminded"] = PyIsoStr(clock)]_vars

\* one hour after a reminder the task needs a reminder again
C16_Witness ==
    \E k \in DOMAIN manager.tasks :
        /\ ReminderDue(manager.tasks[k], clock)
        /\ manager.tasks[k]["last_reminded"] = PyIsoStr(clock - 60)
        /\ needs_reminder(manager.tasks[k], clock) = Ok(TRUE)


\* the ids of the time entries of a task that have no end_time
ActiveIds(t) ==
    {t["time_entries"].v[i].v["id"].v :
        i \in {j \in DOMAIN t["time_entries"].v :
                  t["time_entries"].v[j].v["end_time"] = PyNone}}

\* what load_tasks() returns once the call with outcome r in memory has
\* saved
PersistedAfter(r) ==
    TaskManager_load(TaskManager_save(Store, r, AllOk).store,
                     LoadGen(clock)).tasks

\* C18: in a TaskManager newly constructed over a store, on either
\* backend, for every task with an active time entry,
\* get_active_time_entries(task) returns the active entries, and
\* stop_time_tracking(task, entry_id) returns that entry with its end_time
\* set and saves it, so that the persisted task has no such active entry
\* any more.
C18_BackendIndependentTracking ==
    last.op = "restart" =>
        \A k \in DOMAIN manager.tasks :
            /\ get_active_time_entries(manager, k, clock).ok
            /\ {e["id"].v :
                    e \in Range(get_active_time_entries(manager, k,
                                                        clock).val)}
                   = ActiveIds(manager.tasks[k])
            /\ \A e \in ActiveIds(manager.tasks[k]) :
                  LET r == stop_time_tracking(manager, k, e, clock) IN
                  /\ ~r.raised
                  /\ r.ret.py = "TimeEntry"
                  /\ r.ret.obj["id"] = PyStr(e)
                  /\ r.ret.obj["end_time"] = PyIsoStr(clock)
                  /\ r.save
                  /\ k \in DOMAIN PersistedAfter(r)
                  /\ e \notin ActiveIds(PersistedAfter(r)[k])
                  /\ e \in EntryIdsOf(PersistedAfter(r)[k])


\* the ids in depends_on of task t that are no key of tasks
Dangling(t, tasks) == DependsOnIds(t) \ DOMAIN tasks

\* C20: on the JSON backend, delete_task(B) removes B and changes no other
\* task; a restart leaves depends_on of every task as it was in memory;
\* and a task A with an id B in depends_on that is no task cannot start,
\* is among get_blocked_tasks, and get_task_dependencies(A) returns the
\* dependencies that exist, B not among them.
C20_DanglingDependencies ==
    /\ [][(backend = "json" /\ calls' # calls /\ last'.op = "delete_task") =>
            /\ ~last'.raised
            /\ DOMAIN manager'.tasks = DOMAIN manager.tasks \ {last'.id}
            /\ \A k \in DOMAIN manager'.tasks :
                  manager'.tasks[k] = manager.tasks[k]]_vars
    /\ [][(backend = "json" /\ last'.op = "restart") =>
            /\ DOMAIN manager'.tasks = DOMAIN manager.tasks
            /\ \A k \in DOMAIN manager.tasks :
                  manager'.tasks[k]["depends_on"]
                      = manager.tasks[k]["depends_on"]]_vars
    /\ [](backend = "json" =>
            \A A \in DOMAIN manager.tasks :
                Dangling(manager.tasks[A], manager.tasks) # {} =>
                    /\ ~can_start(manager.tasks[A], manager.tasks)
                    /\ A \in get_blocked_tasks(manager)
                    /\ Range(get_task_dependencies(manager, A))
                          = DependsOnIds(manager.tasks[A])
                                \cap DOMAIN manager.tasks)

\* after a restart over the JSON store a task depends on a deleted task
C20_Witness ==
    /\ backend = "json"
    /\ last.op = "restart"
    /\ \E A \in DOMAIN manager.tasks :
          /\ Dangling(manager.tasks[A], manager.tasks) # {}
          /\ A \in get_blocked_tasks(manager)
          /\ get_task_dependencies(manager, A) = <<>>


\* a sequence without two equal elements
NoDuplicates(seq) ==
    \A i, j \in DOMAIN seq : seq[i] = seq[j] => i = j

ListFields == {"categories", "tags", "depends_on"}

AddOps ==
    {"add_category", "add_tag", "add_dependency", "bulk_set_category",
     "bulk_set_tag"}

\* C21: the categories, tags and depends_on lists of every task are free
\* of duplicates after every sequence of add_category, remove_category,
\* add_tag, remove_tag, add_dependency, remove_dependency,
\* bulk_set_category and bulk_set_tag over tasks created with such lists;
\* an add leaves each list as it was or appends one value the list did not
\* hold, and an add that changes no list changes nothing and saves
\* nothing.
C21_NoDuplicates ==
    /\ [](\A k \in DOMAIN manager.tasks : \A f \in ListFields :
            NoDuplicates(manager.tasks[k][f].v))
    /\ [][(calls' # calls /\ last'.op \in AddOps) =>
            /\ DOMAIN manager'.tasks = DOMAIN manager.tasks
            /\ \A k \in DOMAIN manager.tasks : \A f \in ListFields :
                  LET before == manager.tasks[k][f].v
                      after == manager'.tasks[k][f].v
                  IN  \/ after = before
                      \/ /\ Len(after) = Len(before) + 1
                         /\ SubSeq(after, 1, Len(before)) = before
                         /\ after[Len(after)] \notin Range(before)
            /\ (\A k \in DOMAIN manager.tasks : \A f \in ListFields :
                    manager'.tasks[k][f] = manager.tasks[k][f])
                  => /\ ~last'.saved
                     /\ manager' = manager
                     /\ <<tasksFile', templatesFile', db'>>
                            = <<tasksFile, templatesFile, db>>]_vars

\* a bulk call has added a category to a task that held another, and
\* passed over a task named twice
C21_Witness ==
    /\ last.op = "bulk_set_category"
    /\ last.saved
    /\ \E k \in DOMAIN manager.tasks :
          /\ Len(manager.tasks[k]["categories"].v) = 2
          /\ last.ret.objs = <<k, k>>


\* the fields of a task that TaskTemplate.create_task takes from the
\* template
FromTemplate ==
    {"title", "description", "priority", "categories", "tags",
     "estimated_minutes", "reminder_before_minutes"}

\* task is what template gives, the overrides applied
MadeFrom(task, template, overrides) ==
    \A f \in FromTemplate :
        task[f] = IF f \in DOMAIN overrides THEN overrides[f]
                  ELSE template[f]

\* C22: create_task_from_template returns a task under an id no task had,
\* with the fields of the template or of the overrides, and no call on a
\* task (create_task_from_template itself, add or remove of a category or
\* tag, update, complete, delete) changes a template of
\* manager.templates.
C22_TemplatesImmutable ==
    /\ [][(/\ calls' # calls
            /\ last'.op = "create_task_from_template"
            /\ last'.ret # PyNone) =>
            /\ last'.ret.py = "Task"
            /\ last'.ret.obj["id"].v \notin DOMAIN manager.tasks
            /\ last'.ret.obj["id"] \notin IdsOf(manager.tasks)
            /\ DOMAIN manager'.tasks
                  = DOMAIN manager.tasks \cup {last'.ret.obj["id"].v}
            /\ manager'.tasks[last'.ret.obj["id"].v] = last'.ret.obj
            /\ \E t \in DOMAIN manager.templates :
               \E overrides \in TemplateOverrides :
                  /\ manager.templates[t]["name"] = PyStr("daily")
                  /\ MadeFrom(last'.ret.obj, manager.templates[t], overrides)
          ]_vars
    /\ [][(calls' # calls /\ last'.op # "create_template") =>
            manager'.templates = manager.templates]_vars

\* a category has been removed from a task made from a template that has
\* the category
C22_Witness ==
    /\ last.op = "remove_category"
    /\ last.saved
    /\ \E t \in DOMAIN manager.templates :
          /\ manager.templates[t]["categories"] = PyList(<< PyStr("work") >>)
          /\ manager.tasks[last.id]["title"] = manager.templates[t]["title"]
          /\ manager.tasks[last.id]["categories"] = PyList(<<>>)


\* the time entries of task k of the manager m
EntriesOf(m, k) == m.tasks[k]["time_entries"].v

\* the outcome r of stop_time_tracking(k, e) at the instant now: the entry
\* e is returned with end_time now and duration_minutes now - start_time,
\* it is written in place, and no other entry is added, removed, moved or
\* changed
Stopped(r, k, e, now) ==
    /\ ~r.raised
    /\ r.ret.py = "TimeEntry"
    /\ r.ret.obj["id"] = PyStr(e)
    /\ r.ret.obj["end_time"] = PyIsoStr(now)
    /\ r.ret.obj["start_time"].py = "str"
    /\ r.ret.obj["duration_minutes"]
          = PyFloat(now - r.ret.obj["start_time"].iso)
    /\ r.save
    /\ Len(EntriesOf(r, k)) = Len(EntriesOf(manager, k))
    /\ \A i \in DOMAIN EntriesOf(manager, k) :
          IF EntriesOf(manager, k)[i].v["id"] = PyStr(e)
          THEN /\ EntriesOf(r, k)[i] = TimeEntry_asdict(r.ret.obj)
               /\ \A f \in {"id", "start_time", "notes"} :
                     EntriesOf(r, k)[i].v[f] = EntriesOf(manager, k)[i].v[f]
          ELSE EntriesOf(r, k)[i] = EntriesOf(manager, k)[i]

\* C23: start_time_tracking appends one entry with end_time absent and
\* duration_minutes 0 and leaves the entries before it as they were;
\* stop_time_tracking(task, e) sets end_time of the entry e to the instant
\* of the call and duration_minutes to end_time - start_time, in place,
\* no entry added, removed or moved; get_active_time_entries returns the
\* entries whose end_time is absent and no others.
C23_TimeEntryLifecycle ==
    /\ [][(/\ calls' # calls
            /\ last'.op = "start_time_tracking"
            /\ last'.id \in DOMAIN manager.tasks) =>
            /\ ~last'.raised
            /\ last'.ret.py = "TimeEntry"
            /\ last'.ret.obj["end_time"] = PyNone
            /\ last'.ret.obj["duration_minutes"] = PyFloat(0)
            /\ last'.ret.obj["id"].v \notin EntryIdsOf(manager.tasks[last'.id])
            /\ EntriesOf(manager', last'.id)
                  = Append(EntriesOf(manager, last'.id),
                           TimeEntry_asdict(last'.ret.obj))]_vars
    /\ [](\A k \in DOMAIN manager.tasks :
            /\ \A e \in ActiveIds(manager.tasks[k]) :
                  Stopped(stop_time_tracking(manager, k, e, clock), k, e,
                          clock)
            /\ get_active_time_entries(manager, k, clock).ok
            /\ {x["id"].v :
                    x \in Range(get_active_time_entries(manager, k,
                                                        clock).val)}
                  = ActiveIds(manager.tasks[k]))

\* C30: stop_time_tracking on an entry whose end_time is set returns the
\* entry again, end_time replaced by the instant of the call and
\* duration_minutes by the new end_time - start_time, which is not less
\* than the duration recorded; stop_time_tracking returns None and changes
\* nothing when the task or the entry id does not exist, and only then.
C30_StopOnStoppedEntry ==
    \A k \in DOMAIN manager.tasks :
        /\ \A e \in EntryIdsOf(manager.tasks[k])
                     \ ActiveIds(manager.tasks[k]) :
              LET r == stop_time_tracking(manager, k, e, clock) IN
              /\ Stopped(r, k, e, clock)
              /\ \A i \in DOMAIN EntriesOf(manager, k) :
                    EntriesOf(manager, k)[i].v["id"] = PyStr(e) =>
                        r.ret.obj["duration_minutes"].v
                            >= EntriesOf(manager, k)[i].v[
                                   "duration_minutes"].v
        /\ stop_time_tracking(manager, k, NoSuchId, clock)
              = Return(manager, PyNone, FALSE)
        /\ stop_time_tracking(manager, NoSuchId, NoSuchId, clock)
              = Return(manager, PyNone, FALSE)


\* C24: every task SQLiteStorage.load_tasks returns has an empty
\* blocked_by list, whatever blocked_by the task had when it was saved.
C24_BlockedByNotPersisted ==
    (backend = "sqlite" /\ last.op = "load_tasks" /\ ~last.raised) =>
        \A k \in DOMAIN last.value :
            last.value[k]["blocked_by"] = PyList(<<>>)

\* a task saved with a blocked_by list has been loaded
C24_Witness ==
    /\ backend = "sqlite"
    /\ last.op = "load_tasks"
    /\ ~last.raised
    /\ CompletedTask2["blocked_by"] # PyList(<<>>)
    /\ "t2" \in DOMAIN last.value
    /\ last.value["t2"]["completed_at"] = CompletedTask2["completed_at"]
    /\ last.value["t2"]["blocked_by"] = PyList(<<>>)


\* the outcome of load_tasks() / load_templates() of the storage object
\* constructed with path, over the files and the database given: the
\* mapping returned, or that the call raised
LoadTasksAt(files, d, path, gen) ==
    storage_load_tasks(StoreAt(files, d, path), gen)

LoadTemplatesAt(files, d, path, gen) ==
    storage_load_templates(StoreAt(files, d, path), gen)

\* C25: tasks and templates are persisted independently: on both backends
\* a save_tasks, succeeding or failing, leaves what load_templates returns
\* as it was, and a save_templates leaves what load_tasks returns as it
\* was.
C25_IndependentCollections ==
    [][\A gen \in Gens :
          /\ last'.op = "save_tasks" =>
                LoadTemplatesAt(fs', db', last'.store, gen)
                    = LoadTemplatesAt(fs, db, last'.store, gen)
          /\ last'.op = "save_templates" =>
                LoadTasksAt(fs', db', last'.store, gen)
                    = LoadTasksAt(fs, db, last'.store, gen)]_vars


\* the file _ensure_files writes for an absent file
EmptyCollection(key) ==
    FileText(json_encode(PyDict([c \in {key} |-> PyDict(EmptyMap)])))

\* no file and no database the storage object constructed with path uses
AbsentStorage(path) ==
    IF backend = "json"
    THEN fs[path] = FileAbsent /\ fs[templates_filepath(path)] = FileAbsent
    ELSE db = AbsentDB

\* a load that returns the empty mapping
LoadedNothing == [raised |-> FALSE, value |-> EmptyMap, logged |-> FALSE]

\* C26: construction preserves persisted data.  Constructing a Document
\* Store writes an empty collection only to a file that does not exist and
\* leaves every existing file as it is; constructing a Relational Store
\* leaves every existing table as it is and creates the missing ones empty;
\* a store constructed where an earlier instance was returns from
\* load_tasks / load_templates what they returned before, and a store over
\* absent storage loads empty mappings.
C26_ConstructionPreserves ==
    [][last'.op = "construct" =>
          /\ backend = "json" =>
                \A p \in Paths :
                    IF fs[p] = FileAbsent
                    THEN fs'[p] \in {FileAbsent, EmptyCollection("tasks"),
                                    EmptyCollection("templates")}
                    ELSE fs'[p] = fs[p]
          /\ backend = "sqlite" =>
                /\ \A t \in DOMAIN db : t \in DOMAIN db' /\ db'[t] = db[t]
                /\ \A t \in DOMAIN db' \ DOMAIN db : db'[t] = <<>>
          /\ last'.ret =>
                \A gen \in Gens :
                    /\ last'.store \in stores =>
                          /\ LoadTasksAt(fs', db', last'.store, gen)
                                = LoadTasksAt(fs, db, last'.store, gen)
                          /\ LoadTemplatesAt(fs', db', last'.store, gen)
                                = LoadTemplatesAt(fs, db, last'.store, gen)
                    /\ AbsentStorage(last'.store) =>
                          /\ LoadTasksAt(fs', db', last'.store, gen)
                                = LoadedNothing
                          /\ LoadTemplatesAt(fs', db', last'.store, gen)
                                = LoadedNothing]_vars

\* a store has been constructed over tasks and templates an earlier
\* instance saved
C26_Witness ==
    /\ last.op = "construct"
    /\ last.ret
    /\ \E gen \in Gens :
          /\ LoadTasksAt(fs, db, last.store, gen).value \in SomeTasks
          /\ LoadTemplatesAt(fs, db, last.store, gen).value \in SomeTemplates


\* C29: the Document Store's template file does not depend on the task
\* file path: Document Stores constructed with different task file paths
\* keep separate task collections (a save_tasks through one changes what
\* its own load_tasks returns and nothing of what load_tasks of another
\* returns) and share one template collection (load_templates returns the
\* same through all of them, and after a save_templates through one it
\* returns the saved templates through every one).
C29_SharedTemplateFile ==
    [][backend = "json" =>
          \A gen \in Gens :
              /\ last'.op = "save_tasks" =>
                    \A s \in stores \ {last'.store} :
                        LoadTasksAt(fs', db', s, gen)
                            = LoadTasksAt(fs, db, s, gen)
              /\ (last'.op = "save_tasks" /\ last'.ret) =>
                    LoadTasksAt(fs', db', last'.store, gen).value = last'.arg
              /\ (last'.op = "save_templates" /\ last'.ret) =>
                    \A s \in stores :
                        LoadTemplatesAt(fs', db', s, gen).value = last'.arg
              /\ \A s1, s2 \in stores' :
                    LoadTemplatesAt(fs', db', s1, gen)
                        = LoadTemplatesAt(fs', db', s2, gen)]_vars

\* two Document Stores with different task files, holding different tasks;
\* templates have been saved through one and are loaded through the other
C29_Witness ==
    /\ backend = "json"
    /\ {"tasks.json", "other.json"} \subseteq stores
    /\ last.op = "save_templates"
    /\ last.ret
    /\ last.store = "tasks.json"
    /\ last.arg \in SomeTemplates
    /\ \E gen \in Gens :
          /\ LoadTemplatesAt(fs, db, "other.json", gen).value = last.arg
          /\ LoadTasksAt(fs, db, "tasks.json", gen).value = ("t1" :> PlainTask1)
          /\ LoadTasksAt(fs, db, "other.json", gen).value
                = ("t2" :> CompletedTask2)


\* what load_templates() returns from the database d
PersistedTemplates(d) ==
    SQLiteStorage_load_templates(d, LoadGen(clock), FALSE).value

\* every task of the mapping has a title and a priority the database can
\* bind, and no two carry one id
Insertable(tasks) ==
    /\ ~Uninsertable("save_tasks", tasks)
    /\ \A k1, k2 \in DOMAIN tasks :
          k1 # k2 => tasks[k1]["id"] # tasks[k2]["id"]

TaskFileDecodes(file) ==
    JSONLoadCollection(file, "tasks", LoadGen(clock), FALSE).ok

\* the ids of the records a task file holds
RecordKeys(file) ==
    IF file.st = "text" THEN DOMAIN file.doc.v["tasks"].v ELSE {}

\* C28: while the Document Store's task file cannot be read or decoded, the
\* manager constructed over it holds no task, and its first operation that
\* saves overwrites the file with the tasks then in memory: load_tasks then
\* returns exactly those, and none of the records the file held before.
C28_UndecodableFileOverwritten ==
    [][(backend = "json" /\ ~TaskFileDecodes(tasksFile)) =>
          /\ manager.tasks = EmptyMap
          /\ (calls' # calls /\ last'.saved) =>
                /\ last'.tasks_saved
                /\ JSONStorage_load_tasks(tasksFile', LoadGen(clock), FALSE)
                      = [raised |-> FALSE, value |-> manager'.tasks,
                         logged |-> FALSE]
                /\ \A k \in RecordKeys(tasksFile) :
                      k \notin DOMAIN manager'.tasks]_vars

\* the first call of a manager that started empty over a file it could not
\* decode has created a task, the only one load_tasks now returns
C28_Witness ==
    /\ backend = "json"
    /\ last.op = "create_task"
    /\ calls = MaxFeatureCalls - 1
    /\ last.tasks_saved
    /\ DOMAIN manager.tasks = {uuid4(1)}
    /\ RecordKeys(tasksFile) = {uuid4(1)}
    /\ JSONStorage_load_tasks(tasksFile, LoadGen(clock), FALSE).value
          = manager.tasks


=============================================================================
